---------------------------- MODULE Spec2Model ----------------------------
(***************************************************************************)
(* A model of the shape manager of the ray marcher (src/src/util/shapes.rs)*)
(* and of the per-frame configuration record it fills (src/src/lib.rs).    *)
(*                                                                         *)
(* Conventions.                                                            *)
(*  - Storage positions, kind-local indices and the keys of `indices` and  *)
(*    `map` are 0-based as in the source; a TLA+ sequence is 1-based, so   *)
(*    slot a of a Vec v is v[a + 1].                                       *)
(*  - Option<T> is a sequence of length at most one: None is << >>,        *)
(*    Some(x) is << x >>.                                                  *)
(*  - A panic (index out of bounds, unwrap of None, todo!()) sets `fatal`; *)
(*    the process is gone and no operation runs afterwards.                *)
(*  - f32 coordinates are drawn from small integers, on which the f32      *)
(*    arithmetic of the modelled operations is exact; the one place where  *)
(*    f32 rounding is reachable with integers (buffer_size) rounds as an   *)
(*    IEEE-754 binary32 does.                                              *)
(*  - A serialized buffer is the sequence of its fixed-layout records; its *)
(*    byte length is the record count times the record's size.             *)
(***************************************************************************)
EXTENDS Integers, Sequences, FiniteSets, TLC

VARIABLES
    shapes,     \* ShapeManager.shapes : Vec<Box<dyn Shape>>
    indices,    \* ShapeManager.indices: next kind-local index per kind
    map,        \* ShapeManager.map    : Vec<Vec<u32>>, kind-local index -> slot
    config,     \* the caller's ShaderParams record
    fatal,      \* TRUE once an operation has panicked
    ret         \* the last call: [op, args, out]

vars == <<shapes, indices, map, config, fatal, ret>>

---------------------------------------------------------------------------
(* Bounds of the model *)

MaxShapes == 2      \* new_sphere / new_cube stop growing the collection here
MaxCount == 6       \* width of each window of shape counts fed to buffer_size

---------------------------------------------------------------------------
(* Program constants *)

\* u32::MAX_VALUE, the all-ones 32-bit word; TLC's integers are 32-bit signed,
\* in which that word reads -1.
U32_MAX == 0 - 1

\* f32::MAX and f32::MIN = -f32::MAX stand beyond every coordinate of the model.
F32_MAX == 1073741823
F32_MIN == 0 - F32_MAX

\* f32::INFINITY, its negative and NaN stand beyond f32::MAX and f32::MIN.
F32_INFINITY == 2147483646
F32_NEG_INFINITY == 0 - F32_INFINITY
F32_NAN == 2147483647

ShapeDataSize == 48     \* size_of::<ShapeData>()
SphereDataSize == 16    \* size_of::<SphereData>()
CubeDataSize == 48      \* size_of::<CubeData>()

\* indices: [u32; 1000]; only the entries of the three shape kinds are ever read.
KindSlots == 3

---------------------------------------------------------------------------
(* Inputs *)

\* (pos, radius, color) of the spheres a caller creates
SphereInputs ==
    { <<<<0, 0, 0>>, 1, <<1, 1, 1>>>>,
      <<<<2, 0, 0 - 1>>, 2, <<1, 0, 0>>>> }

\* (pos, bounds, color) of the cubes a caller creates
CubeInputs ==
    { <<<<0, 0, 0>>, <<1, 1, 1>>, <<0, 0, 0>>>>,
      <<<<1, 1, 0>>, <<1, 2, 1>>, <<0, 1, 0>>>> }

\* the u32 indices a caller passes: every slot, and one past the largest
Indexes == 0 .. MaxShapes

Mat4Identity ==
    << <<1, 0, 0, 0>>, <<0, 1, 0, 0>>, <<0, 0, 1, 0>>, <<0, 0, 0, 1>> >>

Mat4Translate(t) ==
    << <<1, 0, 0, t[1]>>, <<0, 1, 0, t[2]>>, <<0, 0, 1, t[3]>>, <<0, 0, 0, 1>> >>

\* (inv_c_matrix, proj_matrix, screen_size) handed to serialize_shapes; both
\* matrices are affine, so the perspective divide is by w = 1.
Cameras ==
    { <<Mat4Identity, Mat4Identity, <<4, 2>>>>,
      <<Mat4Translate(<<1, 0, 0>>), Mat4Identity, <<4, 2>>>> }

\* device.limits().min_storage_buffer_offset_alignment: a power of two
Alignments == {32, 64, 256}

\* the limit of the one device the running program holds
DeviceAlignments == {256}

---------------------------------------------------------------------------
(* Flags *)

RECURSIVE Pow2(_)
Pow2(e) == IF e = 0 THEN 1 ELSE 2 * Pow2(e - 1)

Flags_enabled == [enabled |-> TRUE]

\* flags |= (self.enabled as u32) << 0
as_u32(flags) == (IF flags.enabled THEN 1 ELSE 0) * Pow2(0)

Flags_set_flag(flags, value) == [flags EXCEPT !.enabled = value]

---------------------------------------------------------------------------
(* Shapes *)

Sphere(pos, radius, color, index) ==
    [kind |-> "Sphere", pos |-> pos, radius |-> radius, color |-> color,
     index |-> index, flags |-> Flags_enabled]

Cube_created_disabled(pos, bounds, rot, color, index) ==
    [kind |-> "Cube", pos |-> pos, bounds |-> bounds, rot |-> rot,
     color |-> color, index |-> index, flags |-> [enabled |-> FALSE]]

Cube(pos, bounds, rot, color, index) ==
    [kind |-> "Cube", pos |-> pos, bounds |-> bounds, rot |-> rot,
     color |-> color, index |-> index, flags |-> Flags_enabled]

Union(left, right, index) ==
    [kind |-> "Union", left |-> left, right |-> right, index |-> index,
     flags |-> Flags_enabled]

\* Quaternion::from_angle_z(Rad(0.0)) and Quaternion::new(1, 0, 0, 0): <<s, x, y, z>>,
\* each component an f32 <<m, e>> standing for m * 2^e
QuatIdentity == << <<1, 0>>, <<0, 0>>, <<0, 0>>, <<0, 0>> >>

Sphere_default == Sphere(<<0, 0, 0>>, 1, <<1, 1, 1>>, U32_MAX)

Cube_default == Cube(<<0, 0, 0>>, <<1, 1, 1>>, QuatIdentity, <<0, 0, 0>>, U32_MAX)

ShapeData_default ==
    [color |-> <<0, 0, 0, 0>>, index |-> U32_MAX, shape_type |-> U32_MAX,
     flags |-> 0, bounding_box |-> <<F32_MIN, F32_MIN, F32_MAX, F32_MAX>>]

set_flag(shape, value) ==
    [shape EXCEPT !.flags = Flags_set_flag(shape.flags, value)]

\* as_any().downcast_ref::<K>(): Some(shape) when the shape is a K
downcast(shape, k) == IF shape.kind = k THEN <<shape>> ELSE << >>

\* The world bounding box (min corner, max corner); a Union's is todo!().
get_world_bounding_box(shape) ==
    CASE shape.kind = "Sphere" ->
            << <<shape.pos[1] - shape.radius, shape.pos[2] - shape.radius,
                 shape.pos[3] - shape.radius>>,
               <<shape.pos[1] + shape.radius, shape.pos[2] + shape.radius,
                 shape.pos[3] + shape.radius>> >>
      [] shape.kind = "Cube" ->
            << <<shape.pos[1] - shape.bounds[1], shape.pos[2] - shape.bounds[2],
                 shape.pos[3] - shape.bounds[3]>>,
               <<shape.pos[1] + shape.bounds[1], shape.pos[2] + shape.bounds[2],
                 shape.pos[3] + shape.bounds[3]>> >>

\* todo!() in Union::get_world_bounding_box
bounding_box_panics(shape) == shape.kind = "Union"

Mat4MulVec(m, v) ==
    [i \in 1 .. 4 |->
        m[i][1] * v[1] + m[i][2] * v[2] + m[i][3] * v[3] + m[i][4] * v[4]]

SetMin(S) == CHOOSE x \in S : \A y \in S : x <= y

SetMax(S) == CHOOSE x \in S : \A y \in S : x >= y

Min2(a, b) == IF a <= b THEN a ELSE b

Max2(a, b) == IF a >= b THEN a ELSE b

\* a / b in f32 on the integers of the model, which every division of the
\* model divides evenly; a zero divisor is +0.0, the sum of products of which
\* no factor is -0.0
f32_quotient(a, b) ==
    IF b # 0 THEN a \div b
    ELSE IF a = 0 THEN F32_NAN
    ELSE IF a > 0 THEN F32_INFINITY
    ELSE F32_NEG_INFINITY

\* (ndc + 1.0) / 2.0 * size for a size above zero: an infinity and NaN stay
to_pixels(ndc, size) ==
    IF ndc \in {F32_NAN, F32_INFINITY, F32_NEG_INFINITY} THEN ndc
    ELSE ((ndc + 1) * size) \div 2

\* The pixel position of one world-space corner.
corner_to_pixels(c, inv_c_matrix, proj_matrix, screen_size) ==
    LET cam == Mat4MulVec(inv_c_matrix, <<c[1], c[2], c[3], 1>>)
        clip == Mat4MulVec(proj_matrix, cam)
    IN  <<to_pixels(f32_quotient(clip[1], clip[4]), screen_size[1]),
          to_pixels(f32_quotient(clip[2], clip[4]), screen_size[2])>>

\* the fold of f32::min over the numbers S from acc: a NaN is skipped
fold_min(acc, S) ==
    IF S \ {F32_NAN} = {} THEN acc ELSE Min2(acc, SetMin(S \ {F32_NAN}))

\* the fold of f32::max over the numbers S from acc: a NaN is skipped
fold_max(acc, S) ==
    IF S \ {F32_NAN} = {} THEN acc ELSE Max2(acc, SetMax(S \ {F32_NAN}))

get_screen_bounding_box(shape, inv_c_matrix, proj_matrix, screen_size) ==
    LET bb == get_world_bounding_box(shape)
        c1 == bb[1]
        c2 == bb[2]
        corners ==
            { corner_to_pixels(<<x, y, z>>, inv_c_matrix, proj_matrix, screen_size) :
                x \in {c1[1], c2[1]}, y \in {c1[2], c2[2]}, z \in {c1[3], c2[3]} }
    IN  << fold_min(F32_MAX, {c[1] : c \in corners}),
           fold_min(F32_MAX, {c[2] : c \in corners}),
           fold_max(F32_MIN, {c[1] : c \in corners}),
           fold_max(F32_MIN, {c[2] : c \in corners}) >>

Sphere_shape_data(shape, cam) ==
    [color |-> <<shape.color[1], shape.color[2], shape.color[3], 0>>,
     index |-> shape.index, shape_type |-> 0, flags |-> as_u32(shape.flags),
     bounding_box |-> get_screen_bounding_box(shape, cam[1], cam[2], cam[3])]

Cube_shape_data_as_sphere(shape, cam) ==
    [color |-> <<shape.color[1], shape.color[2], shape.color[3], 0>>,
     index |-> shape.index, shape_type |-> 0, flags |-> as_u32(shape.flags),
     bounding_box |-> get_screen_bounding_box(shape, cam[1], cam[2], cam[3])]

Cube_shape_data(shape, cam) ==
    [color |-> <<shape.color[1], shape.color[2], shape.color[3], 0>>,
     index |-> shape.index, shape_type |-> 1, flags |-> as_u32(shape.flags),
     bounding_box |-> get_screen_bounding_box(shape, cam[1], cam[2], cam[3])]

Union_shape_data(shape, cam) ==
    [color |-> <<0, 0, 0, 0>>,
     index |-> shape.index, shape_type |-> 2, flags |-> as_u32(shape.flags),
     bounding_box |-> get_screen_bounding_box(shape, cam[1], cam[2], cam[3])]

shape_data(shape, cam) ==
    CASE shape.kind = "Sphere" -> Sphere_shape_data(shape, cam)
      [] shape.kind = "Cube" -> Cube_shape_data(shape, cam)
      [] shape.kind = "Union" -> Union_shape_data(shape, cam)

sphere_data(shape) ==
    [model |-> <<shape.pos[1], shape.pos[2], shape.pos[3], shape.radius>>]

cube_data(shape) ==
    [model |-> shape.pos, size |-> shape.bounds,
     rot |-> <<shape.rot[2], shape.rot[3], shape.rot[4], shape.rot[1]>>]

---------------------------------------------------------------------------
(* IEEE-754 binary32 conversion of a non-negative integer *)

RECURSIVE Log2Floor(_)
Log2Floor(n) == IF n < 2 THEN 0 ELSE 1 + Log2Floor(n \div 2)

\* `n as f32`: 24 significant bits, round to nearest, ties to even
to_f32(n) ==
    IF n < Pow2(24) THEN n
    ELSE LET ulp == Pow2(Log2Floor(n) - 23)
             q == n \div ulp
             r == n % ulp
         IN  IF 2 * r < ulp THEN q * ulp
             ELSE IF 2 * r > ulp THEN (q + 1) * ulp
             ELSE IF q % 2 = 0 THEN q * ulp
             ELSE (q + 1) * ulp

\* (a / b).ceil() for f32 a and a power of two b: dividing by a power of two
\* only changes the exponent, so the quotient is exact and its ceiling is the
\* integer ceiling of a / b.
f32_div_ceil(a, b) == (a + (b - 1)) \div b

---------------------------------------------------------------------------
(* ShapeManager: queries *)

\* the number of stored shapes of kind k
CountKind(k) == Cardinality({i \in 1 .. Len(shapes) : shapes[i].kind = k})

\* self.map[k], when the Vec has an entry k
has_map(k) == k < Len(map)

get_shape(index) ==
    IF index < Len(shapes) THEN <<shapes[index + 1]>> ELSE << >>

serialize_shapes_panics ==
    \E i \in 1 .. Len(shapes) : bounding_box_panics(shapes[i])

serialize_shapes_no_sentinel(cam) ==
    [i \in 1 .. Len(shapes) |-> shape_data(shapes[i], cam)]

serialize_shapes(cam) ==
    IF Len(shapes) = 0 THEN <<ShapeData_default>>
    ELSE [i \in 1 .. Len(shapes) |-> shape_data(shapes[i], cam)]

IsSphere(s) == s.kind = "Sphere"

IsCube(s) == s.kind = "Cube"

serialize_spheres_cube_guard ==
    IF map[2] = << >> THEN <<sphere_data(Sphere_default)>>
    ELSE LET sel == SelectSeq(shapes, IsSphere)
         IN  [i \in 1 .. Len(sel) |-> sphere_data(sel[i])]

serialize_spheres ==
    IF map[1] = << >> THEN <<sphere_data(Sphere_default)>>
    ELSE LET sel == SelectSeq(shapes, IsSphere)
         IN  [i \in 1 .. Len(sel) |-> sphere_data(sel[i])]

serialize_cubes_no_sentinel ==
    LET sel == SelectSeq(shapes, IsCube)
    IN  [i \in 1 .. Len(sel) |-> cube_data(sel[i])]

serialize_cubes ==
    IF map[2] = << >> THEN <<cube_data(Cube_default)>>
    ELSE LET sel == SelectSeq(shapes, IsCube)
         IN  [i \in 1 .. Len(sel) |-> cube_data(sel[i])]

buffer_size(raw_size, chunk_size) ==
    LET chunks == f32_div_ceil(to_f32(raw_size), to_f32(chunk_size))
    IN  chunks * chunk_size

shape_buffer_size(len, chunk_size) == buffer_size(ShapeDataSize * len, chunk_size)

sphere_buffer_size(len, chunk_size) == buffer_size(SphereDataSize * len, chunk_size)

cube_buffer_size(len, chunk_size) == buffer_size(CubeDataSize * len, chunk_size)

update_shader_config_swapped(cfg) ==
    [cfg EXCEPT !.shape_count = Len(shapes),
                !.sphere_count = Len(map[2]),
                !.cube_count = Len(map[1])]

update_shader_config(cfg) ==
    [cfg EXCEPT !.shape_count = Len(shapes),
                !.sphere_count = Len(map[1]),
                !.cube_count = Len(map[2])]

shape_count == Len(shapes)

sphere_count == indices[0]

\* self.map[k].get(index).and_then(|a| self.shapes.get(a)).map(downcast).flatten()
get_kind(k, kind, index) ==
    IF index < Len(map[k + 1])
    THEN LET a == map[k + 1][index + 1]
         IN  IF a < Len(shapes) THEN downcast(shapes[a + 1], kind) ELSE << >>
    ELSE << >>

get_sphere_through_cube_map(index) == get_kind(1, "Sphere", index)

get_sphere(index) == get_kind(0, "Sphere", index)

get_sphere_mut(index) == get_kind(0, "Sphere", index)

get_cube(index) == get_kind(1, "Cube", index)

get_cube_mut(index) == get_kind(1, "Cube", index)

---------------------------------------------------------------------------
(* ShapeManager: operations *)

Call(op, args, out) == [op |-> op, args |-> args, out |-> out]

\* get_shape_mut(index).unwrap().set_flag(Flag::Enabled, value) on a Vec sh
with_flag(sh, index, value) ==
    [sh EXCEPT ![index + 1] = set_flag(@, value)]

new_sphere_slot_index(pos, radius, color) ==
    /\ ~fatal
    /\ Len(shapes) < MaxShapes
    /\ map' = [map EXCEPT ![1] = Append(@, Len(shapes))]
    /\ shapes' = Append(shapes, Sphere(pos, radius, color, Len(shapes)))
    /\ indices' = [indices EXCEPT ![0] = @ + 1]
    /\ ret' = Call("new_sphere", <<pos, radius, color>>, <<Len(shapes)>>)
    /\ UNCHANGED <<config, fatal>>

\* The handle returned is the slot of the shape just pushed.
new_sphere(pos, radius, color) ==
    /\ ~fatal
    /\ Len(shapes) < MaxShapes
    /\ map' = [map EXCEPT ![1] = Append(@, Len(shapes))]
    /\ shapes' = Append(shapes, Sphere(pos, radius, color, indices[0]))
    /\ indices' = [indices EXCEPT ![0] = @ + 1]
    /\ ret' = Call("new_sphere", <<pos, radius, color>>, <<Len(shapes)>>)
    /\ UNCHANGED <<config, fatal>>

\* The cube is counted on the spheres' counter.
new_cube_counted_as_sphere(pos, bounds, color) ==
    /\ ~fatal
    /\ Len(shapes) < MaxShapes
    /\ map' = [map EXCEPT ![2] = Append(@, Len(shapes))]
    /\ shapes' = Append(shapes, Cube(pos, bounds, QuatIdentity, color, indices[1]))
    /\ indices' = [indices EXCEPT ![0] = @ + 1]
    /\ ret' = Call("new_cube", <<pos, bounds, color>>, <<Len(shapes)>>)
    /\ UNCHANGED <<config, fatal>>

\* Every cube gets kind-local index 0.
new_cube_reused_index(pos, bounds, color) ==
    /\ ~fatal
    /\ Len(shapes) < MaxShapes
    /\ map' = [map EXCEPT ![2] = Append(@, Len(shapes))]
    /\ shapes' = Append(shapes, Cube(pos, bounds, QuatIdentity, color, 0))
    /\ indices' = [indices EXCEPT ![1] = @ + 1]
    /\ ret' = Call("new_cube", <<pos, bounds, color>>, <<Len(shapes)>>)
    /\ UNCHANGED <<config, fatal>>

new_cube(pos, bounds, color) ==
    /\ ~fatal
    /\ Len(shapes) < MaxShapes
    /\ map' = [map EXCEPT ![2] = Append(@, Len(shapes))]
    /\ shapes' = Append(shapes, Cube(pos, bounds, QuatIdentity, color, indices[1]))
    /\ indices' = [indices EXCEPT ![1] = @ + 1]
    /\ ret' = Call("new_cube", <<pos, bounds, color>>, <<Len(shapes)>>)
    /\ UNCHANGED <<config, fatal>>

\* Disables each operand as soon as it is found, before looking at the other.
new_union_eager_disable(left, right) ==
    /\ ~fatal
    /\ IF Len(get_shape(left)) = 1
       THEN IF Len(get_shape(right)) = 1
            THEN /\ shapes' = with_flag(with_flag(shapes, left, FALSE), right, FALSE)
                 /\ fatal' = ~has_map(2)
            ELSE /\ shapes' = with_flag(shapes, left, FALSE)
                 /\ fatal' = FALSE
       ELSE UNCHANGED <<shapes, fatal>>
    /\ ret' = Call("new_union", <<left, right>>, << >>)
    /\ UNCHANGED <<indices, map, config>>

\* Both operands are disabled first; self.map[2] then indexes a Vec that
\* ShapeManager::new gave two entries, which panics.
new_union(left, right) ==
    /\ ~fatal
    /\ IF Len(get_shape(left)) = 1 /\ Len(get_shape(right)) = 1
       THEN LET disabled == with_flag(with_flag(shapes, left, FALSE), right, FALSE)
            IN  IF has_map(2)
                THEN /\ map' = [map EXCEPT ![3] = Append(@, Len(shapes))]
                     /\ shapes' = Append(disabled, Union(left, right, indices[2]))
                     /\ indices' = [indices EXCEPT ![2] = @ + 1]
                     /\ fatal' = FALSE
                     /\ ret' = Call("new_union", <<left, right>>, <<Len(shapes)>>)
                ELSE /\ shapes' = disabled
                     /\ fatal' = TRUE
                     /\ ret' = Call("new_union", <<left, right>>, << >>)
                     /\ UNCHANGED <<indices, map>>
       ELSE /\ ret' = Call("new_union", <<left, right>>, << >>)
            /\ UNCHANGED <<shapes, indices, map, fatal>>
    /\ UNCHANGED config

\* Shape::set_flag through a handle or get_shape_mut(index)
SetFlag(index, value) ==
    /\ ~fatal
    /\ index < Len(shapes)
    /\ shapes' = with_flag(shapes, index, value)
    /\ ret' = Call("set_flag", <<index, value>>, << >>)
    /\ UNCHANGED <<indices, map, config, fatal>>

SerializeShapes(cam) ==
    /\ ~fatal
    /\ IF serialize_shapes_panics
       THEN /\ fatal' = TRUE
            /\ ret' = Call("serialize_shapes", <<cam>>, << >>)
       ELSE /\ fatal' = FALSE
            /\ ret' = Call("serialize_shapes", <<cam>>, serialize_shapes(cam))
    /\ UNCHANGED <<shapes, indices, map, config>>

SerializeSpheres ==
    /\ ~fatal
    /\ ret' = Call("serialize_spheres", << >>, serialize_spheres)
    /\ UNCHANGED <<shapes, indices, map, config, fatal>>

\* The cubes are moved out of the collection into the buffer.
SerializeCubes_draining ==
    /\ ~fatal
    /\ ret' = Call("serialize_cubes", << >>, serialize_cubes)
    /\ shapes' = SelectSeq(shapes, IsSphere)
    /\ UNCHANGED <<indices, map, config, fatal>>

SerializeCubes ==
    /\ ~fatal
    /\ ret' = Call("serialize_cubes", << >>, serialize_cubes)
    /\ UNCHANGED <<shapes, indices, map, config, fatal>>

UpdateShaderConfig ==
    /\ ~fatal
    /\ config' = update_shader_config(config)
    /\ ret' = Call("update_shader_config", << >>, << >>)
    /\ UNCHANGED <<shapes, indices, map, fatal>>

GetSphere(index) ==
    /\ ~fatal
    /\ ret' = Call("get_sphere", <<index>>, get_sphere(index))
    /\ UNCHANGED <<shapes, indices, map, config, fatal>>

GetSphereMut(index) ==
    /\ ~fatal
    /\ ret' = Call("get_sphere_mut", <<index>>, get_sphere_mut(index))
    /\ UNCHANGED <<shapes, indices, map, config, fatal>>

GetCube(index) ==
    /\ ~fatal
    /\ ret' = Call("get_cube", <<index>>, get_cube(index))
    /\ UNCHANGED <<shapes, indices, map, config, fatal>>

GetCubeMut(index) ==
    /\ ~fatal
    /\ ret' = Call("get_cube_mut", <<index>>, get_cube_mut(index))
    /\ UNCHANGED <<shapes, indices, map, config, fatal>>

\* args: the raw byte count and the alignment
ShapeBufferSize(chunk_size) ==
    /\ ~fatal
    /\ ret' = Call("shape_buffer_size", <<ShapeDataSize * Len(shapes), chunk_size>>,
                   <<shape_buffer_size(Len(shapes), chunk_size)>>)
    /\ UNCHANGED <<shapes, indices, map, config, fatal>>

SphereBufferSize(chunk_size) ==
    /\ ~fatal
    /\ ret' = Call("sphere_buffer_size", <<SphereDataSize * Len(map[1]), chunk_size>>,
                   <<sphere_buffer_size(Len(map[1]), chunk_size)>>)
    /\ UNCHANGED <<shapes, indices, map, config, fatal>>

CubeBufferSize(chunk_size) ==
    /\ ~fatal
    /\ ret' = Call("cube_buffer_size", <<CubeDataSize * Len(map[2]), chunk_size>>,
                   <<cube_buffer_size(Len(map[2]), chunk_size)>>)
    /\ UNCHANGED <<shapes, indices, map, config, fatal>>

---------------------------------------------------------------------------
(* The manager and its caller *)

\* the window's (width, height) when the ShaderParams record is built
WindowSizes == { <<800, 600>> }

ShapeManager_new ==
    /\ shapes = << >>
    /\ indices = [k \in 0 .. KindSlots - 1 |-> 0]
    /\ map = << << >>, << >> >>

Init ==
    /\ ShapeManager_new
    /\ \E size \in WindowSizes :
          config = [time |-> 0, width |-> size[1], height |-> size[2],
                    shape_count |-> 0, sphere_count |-> 0, cube_count |-> 0]
    /\ fatal = FALSE
    /\ ret = Call("new", << >>, << >>)

Next ==
    \/ \E inp \in SphereInputs : new_sphere(inp[1], inp[2], inp[3])
    \/ \E inp \in CubeInputs : new_cube(inp[1], inp[2], inp[3])
    \/ \E left \in Indexes, right \in Indexes : new_union(left, right)
    \/ \E index \in Indexes, value \in BOOLEAN : SetFlag(index, value)
    \/ \E cam \in Cameras : SerializeShapes(cam)
    \/ SerializeSpheres
    \/ SerializeCubes
    \/ UpdateShaderConfig
    \/ \E index \in Indexes : GetSphere(index)
    \/ \E index \in Indexes : GetSphereMut(index)
    \/ \E index \in Indexes : GetCube(index)
    \/ \E index \in Indexes : GetCubeMut(index)
    \/ \E chunk_size \in DeviceAlignments : ShapeBufferSize(chunk_size)
    \/ \E chunk_size \in DeviceAlignments : SphereBufferSize(chunk_size)
    \/ \E chunk_size \in DeviceAlignments : CubeBufferSize(chunk_size)

Spec == Init /\ [][Next]_vars

---------------------------------------------------------------------------
(* The buffer-size helpers on their own: the element count and the alignment *)
(* are inputs, the helper is applied once.                                   *)

\* Element counts: a window of small ones, and a window at each count where
\* the raw byte count first needs more than 24 significant bits.
BufferCounts ==
    (0 .. MaxCount)
        \cup { Pow2(28) \div ShapeDataSize + k : k \in 0 .. MaxCount }
        \cup { Pow2(28) \div SphereDataSize + k : k \in 0 .. MaxCount }

InitBuf ==
    /\ ShapeManager_new
    /\ config = [time |-> 0, width |-> 0, height |-> 0,
                 shape_count |-> 0, sphere_count |-> 0, cube_count |-> 0]
    /\ fatal = FALSE
    /\ \E len \in BufferCounts, chunk_size \in Alignments :
          ret = Call("input", <<len, chunk_size>>, << >>)

ShapeBufferSizeOf ==
    /\ ret.op = "input"
    /\ ret' = Call("shape_buffer_size", <<ShapeDataSize * ret.args[1], ret.args[2]>>,
                   <<shape_buffer_size(ret.args[1], ret.args[2])>>)
    /\ UNCHANGED <<shapes, indices, map, config, fatal>>

SphereBufferSizeOf ==
    /\ ret.op = "input"
    /\ ret' = Call("sphere_buffer_size", <<SphereDataSize * ret.args[1], ret.args[2]>>,
                   <<sphere_buffer_size(ret.args[1], ret.args[2])>>)
    /\ UNCHANGED <<shapes, indices, map, config, fatal>>

CubeBufferSizeOf ==
    /\ ret.op = "input"
    /\ ret' = Call("cube_buffer_size", <<CubeDataSize * ret.args[1], ret.args[2]>>,
                   <<cube_buffer_size(ret.args[1], ret.args[2])>>)
    /\ UNCHANGED <<shapes, indices, map, config, fatal>>

NextBuf == ShapeBufferSizeOf \/ SphereBufferSizeOf \/ CubeBufferSizeOf

SpecBuf == InitBuf /\ [][NextBuf]_vars

---------------------------------------------------------------------------
(* Properties *)

\* the number of shapes of the kind of slot i stored before slot i (1-based i)
SameKindBefore(i) ==
    Cardinality({j \in 1 .. i - 1 : shapes[j].kind = shapes[i].kind})

\* C1: every stored Sphere (resp. Cube) has a kind-local index equal to the
\* number of same-kind shapes stored before it, whatever the other kind did.
C1_KindLocalIndexIsOrdinal ==
    \A i \in 1 .. Len(shapes) :
        shapes[i].kind \in {"Sphere", "Cube"} => shapes[i].index = SameKindBefore(i)

\* a sphere created after a cube: slot 1, kind-local index 0
C1_Witness ==
    /\ Len(shapes) = 2
    /\ shapes[1].kind = "Cube"
    /\ shapes[2].kind = "Sphere"
    /\ shapes[2].index = 0
    /\ ret.op = "new_sphere"

\* C2 (as claimed): a new_union call whose two operands resolve to existing
\* shapes does not panic, appends a Union holding left and right as the last
\* element, grows the collection by exactly one and leaves both operands
\* disabled.
C2_NewUnionAppendsUnion ==
    [][(/\ ret'.op = "new_union"
        /\ ret'.args[1] < Len(shapes)
        /\ ret'.args[2] < Len(shapes))
       => (/\ ~fatal'
           /\ Len(shapes') = Len(shapes) + 1
           /\ ret'.out = <<Len(shapes)>>
           /\ shapes'[Len(shapes')].kind = "Union"
           /\ shapes'[Len(shapes')].left = ret'.args[1]
           /\ shapes'[Len(shapes')].right = ret'.args[2]
           /\ ~shapes'[ret'.args[1] + 1].flags.enabled
           /\ ~shapes'[ret'.args[2] + 1].flags.enabled)]_vars

\* C3: a new_union call with an operand that resolves to no shape returns
\* None without panicking and leaves shapes, flags, counters, index map and
\* configuration as they were.
C3_InvalidUnionChangesNothing ==
    [][(/\ ret'.op = "new_union"
        /\ (ret'.args[1] >= Len(shapes) \/ ret'.args[2] >= Len(shapes)))
       => (/\ ret'.out = << >>
           /\ ~fatal'
           /\ shapes' = shapes
           /\ indices' = indices
           /\ map' = map
           /\ config' = config)]_vars

\* new_union(valid, out of range) has returned and the valid operand is enabled
C3_Witness ==
    /\ ret.op = "new_union"
    /\ ~fatal
    /\ ret.args[1] < Len(shapes)
    /\ ret.args[2] >= Len(shapes)
    /\ shapes[ret.args[1] + 1].flags.enabled

\* C4: serialize_shapes on an empty manager returns one 48-byte record whose
\* index is u32::MAX; on a manager holding exactly one sphere it returns one
\* record with shape_type 0.
C4_EmptyManagerSentinel ==
    ret.op = "serialize_shapes" =>
        /\ Len(shapes) = 0 =>
              /\ Len(ret.out) = 1
              /\ Len(ret.out) * ShapeDataSize = 48
              /\ ret.out[1].index = U32_MAX
        /\ (Len(shapes) = 1 /\ shapes[1].kind = "Sphere") =>
              /\ Len(ret.out) = 1
              /\ ret.out[1].shape_type = 0

C4_Witness ==
    /\ ret.op = "serialize_shapes"
    /\ Len(shapes) = 0
    /\ ~fatal

\* the kind tag of the GPU record: 0 = sphere, 1 = cube, 2 = union
KindTag(kind) ==
    CASE kind = "Sphere" -> 0 [] kind = "Cube" -> 1 [] kind = "Union" -> 2

\* C5: with n >= 1 shapes stored, serialize_shapes returns n records in
\* storage order; record i carries the kind tag, the kind-local index and the
\* flag bits (bit 0 = Enabled) of the i-th stored shape.
C5_OneRecordPerShapeInOrder ==
    (ret.op = "serialize_shapes" /\ Len(shapes) >= 1) =>
        /\ ~fatal
        /\ Len(ret.out) = Len(shapes)
        /\ \A i \in 1 .. Len(shapes) :
              /\ ret.out[i].shape_type = KindTag(shapes[i].kind)
              /\ ret.out[i].index = shapes[i].index
              /\ ret.out[i].flags % 2 = (IF shapes[i].flags.enabled THEN 1 ELSE 0)
              /\ ret.out[i].flags \div 2 = 0

\* a disabled cube stored before an enabled sphere has been serialized
C5_Witness ==
    /\ ret.op = "serialize_shapes"
    /\ Len(shapes) = 2
    /\ shapes[1].kind = "Cube"
    /\ ~shapes[1].flags.enabled
    /\ shapes[2].kind = "Sphere"
    /\ shapes[2].flags.enabled

\* C6: serialize_spheres (resp. serialize_cubes) returns one default record
\* when no shape of the kind is stored, and otherwise one record per shape of
\* the kind in storage order, the record at position i being the data of the
\* shape whose kind-local index is i.
C6_KindBufferFollowsKindIndex ==
    /\ ret.op = "serialize_spheres" =>
          IF CountKind("Sphere") = 0
          THEN ret.out = <<sphere_data(Sphere_default)>>
          ELSE /\ Len(ret.out) = CountKind("Sphere")
               /\ \A i \in 1 .. Len(shapes) :
                     shapes[i].kind = "Sphere" =>
                        /\ ret.out[shapes[i].index + 1] = sphere_data(shapes[i])
                        /\ ret.out[SameKindBefore(i) + 1] = sphere_data(shapes[i])
    /\ ret.op = "serialize_cubes" =>
          IF CountKind("Cube") = 0
          THEN ret.out = <<cube_data(Cube_default)>>
          ELSE /\ Len(ret.out) = CountKind("Cube")
               /\ \A i \in 1 .. Len(shapes) :
                     shapes[i].kind = "Cube" =>
                        /\ ret.out[shapes[i].index + 1] = cube_data(shapes[i])
                        /\ ret.out[SameKindBefore(i) + 1] = cube_data(shapes[i])

\* two different spheres and no cube have been serialized
C6_Witness ==
    /\ ret.op = "serialize_spheres"
    /\ CountKind("Sphere") = 2
    /\ CountKind("Cube") = 0
    /\ ret.out[1] # ret.out[2]

\* C7: update_shader_config writes the number of stored shapes, spheres and
\* cubes into the configuration and changes neither its time, width and
\* height nor the manager.
C7_ConfigGetsCounts ==
    [][ret'.op = "update_shader_config"
       => (/\ config'.shape_count = Len(shapes)
           /\ config'.sphere_count = CountKind("Sphere")
           /\ config'.cube_count = CountKind("Cube")
           /\ config'.time = config.time
           /\ config'.width = config.width
           /\ config'.height = config.height
           /\ shapes' = shapes
           /\ indices' = indices
           /\ map' = map
           /\ fatal' = fatal)]_vars

\* the configuration has been updated with two spheres and no cube stored
C7_Witness ==
    /\ ret.op = "update_shader_config"
    /\ CountKind("Sphere") = 2
    /\ config.shape_count = 2
    /\ config.sphere_count = 2
    /\ config.cube_count = 0

\* C8 (as claimed): the number of records each serialize call returns equals
\* the count update_shader_config reports for the same state.
C8_RecordsEqualReportedCounts ==
    /\ ret.op = "serialize_shapes" =>
          Len(ret.out) = update_shader_config(config).shape_count
    /\ ret.op = "serialize_spheres" =>
          Len(ret.out) = update_shader_config(config).sphere_count
    /\ ret.op = "serialize_cubes" =>
          Len(ret.out) = update_shader_config(config).cube_count

AtLeastOne(n) == IF n = 0 THEN 1 ELSE n

\* C8 (amended): the number of records each serialize call returns equals the
\* count update_shader_config reports for the same state when that count is
\* not zero, and is one, the default record, when the count is zero.
C8_RecordsEqualCountsOrOneDefault ==
    /\ ret.op = "serialize_shapes" =>
          Len(ret.out) = AtLeastOne(update_shader_config(config).shape_count)
    /\ ret.op = "serialize_spheres" =>
          Len(ret.out) = AtLeastOne(update_shader_config(config).sphere_count)
    /\ ret.op = "serialize_cubes" =>
          Len(ret.out) = AtLeastOne(update_shader_config(config).cube_count)

\* the cubes of a manager that holds shapes but no cube have been serialized
C8_Witness ==
    /\ ret.op = "serialize_cubes"
    /\ Len(shapes) = 2
    /\ update_shader_config(config).cube_count = 0
    /\ Len(ret.out) = 1

\* C9: get_sphere / get_sphere_mut (resp. get_cube / get_cube_mut) return None
\* without panicking for an index not below the number of stored spheres
\* (resp. cubes), and otherwise the stored shape of that kind whose kind-local
\* index is the one asked for.
C9_KindLookup ==
    /\ ret.op \in {"get_sphere", "get_sphere_mut"} =>
          /\ ~fatal
          /\ IF ret.args[1] >= CountKind("Sphere")
             THEN ret.out = << >>
             ELSE /\ Len(ret.out) = 1
                  /\ ret.out[1].kind = "Sphere"
                  /\ ret.out[1].index = ret.args[1]
                  /\ \E j \in 1 .. Len(shapes) : shapes[j] = ret.out[1]
    /\ ret.op \in {"get_cube", "get_cube_mut"} =>
          /\ ~fatal
          /\ IF ret.args[1] >= CountKind("Cube")
             THEN ret.out = << >>
             ELSE /\ Len(ret.out) = 1
                  /\ ret.out[1].kind = "Cube"
                  /\ ret.out[1].index = ret.args[1]
                  /\ \E j \in 1 .. Len(shapes) : shapes[j] = ret.out[1]

\* sphere 0 has been looked up where slot 0 holds a cube
C9_Witness ==
    /\ ret.op = "get_sphere"
    /\ ret.args[1] = 0
    /\ Len(shapes) = 2
    /\ shapes[1].kind = "Cube"
    /\ ret.out = <<shapes[2]>>

IsBufferSizeCall ==
    ret.op \in {"shape_buffer_size", "sphere_buffer_size", "cube_buffer_size"}

\* C10 (as claimed): the buffer-size helper returns the smallest multiple of
\* the alignment that is at least the raw byte count it was given.
C10_SmallestMultipleNotBelowRaw ==
    IsBufferSizeCall =>
        /\ ret.out[1] % ret.args[2] = 0
        /\ ret.out[1] >= ret.args[1]
        /\ ret.out[1] - ret.args[2] < ret.args[1]

---------------------------------------------------------------------------
(* f32 arithmetic of the vector and matrix kernels *)

\* An f32 value is <<m, e>>, standing for m * 2^e with m an odd integer of at
\* most 24 bits (or <<0, 0>> for zero), so equal values have equal
\* representations.  Every operation rounds its exact result to 24
\* significant bits, to nearest with ties to even, as IEEE-754 binary32 does.
\* The inputs of the kernels are small, so no result leaves the exponent
\* range of f32.

Abs(n) == IF n < 0 THEN 0 - n ELSE n

Sgn(n) == IF n < 0 THEN 0 - 1 ELSE 1

RECURSIVE f32_norm(_, _)
f32_norm(m, e) ==
    IF m = 0 THEN <<0, 0>>
    ELSE IF m % 2 = 0 THEN f32_norm(m \div 2, e + 1)
    ELSE <<m, e>>

\* the f32 nearest to s * (M + f) * 2^e, where 0 <= f < 1 and f > 0 exactly
\* when sticky; M has at least 25 bits whenever sticky is set
f32_round(s, M, e, sticky) ==
    IF M < Pow2(24) THEN f32_norm(s * M, e)
    ELSE LET k == Log2Floor(M) - 23
             q == M \div Pow2(k)
             r == M % Pow2(k)
             half == Pow2(k - 1)
             up == IF r > half THEN TRUE
                   ELSE IF r < half THEN FALSE
                   ELSE sticky \/ q % 2 = 1
         IN  f32_norm(s * (IF up THEN q + 1 ELSE q), e + k)

\* an integer literal such as `1.0`
f32_from(n) == f32_round(Sgn(n), Abs(n), 0, FALSE)

f32_neg(a) == <<0 - a[1], a[2]>>

f32_abs(a) == <<Abs(a[1]), a[2]>>

\* a * b: the 48-bit product of the significands is formed in two 24-bit
\* halves H and L
f32_mul(a, b) ==
    LET s == Sgn(a[1]) * Sgn(b[1])
        A == Abs(a[1])
        B == Abs(b[1])
    IN  IF A = 0 \/ B = 0 THEN <<0, 0>>
        ELSE IF Log2Floor(A) + Log2Floor(B) < 30
        THEN f32_round(s, A * B, a[2] + b[2], FALSE)
        ELSE LET a1 == A \div Pow2(12)
                 a0 == A % Pow2(12)
                 b1 == B \div Pow2(12)
                 b0 == B % Pow2(12)
                 mid == a1 * b0 + a0 * b1
                 lo == a0 * b0 + (mid % Pow2(12)) * Pow2(12)
                 L == lo % Pow2(24)
                 H == a1 * b1 + mid \div Pow2(12) + lo \div Pow2(24)
                 t == Log2Floor(H) - 6
                 M == H * Pow2(24 - t) + L \div Pow2(t)
             IN  f32_round(s, M, a[2] + b[2] + t, L % Pow2(t) # 0)

\* a + b: exact when the aligned significands fit, otherwise the smaller
\* operand is shifted right under a 28-bit larger operand and the bits
\* shifted out are kept as the sticky flag
f32_add(a, b) ==
    IF a[1] = 0 THEN b
    ELSE IF b[1] = 0 THEN a
    ELSE LET hi == IF a[2] >= b[2] THEN a ELSE b
             lo == IF a[2] >= b[2] THEN b ELSE a
             d == hi[2] - lo[2]
             A == Abs(hi[1])
             B == Abs(lo[1])
         IN  IF Log2Floor(A) + d < 30
             THEN LET S == hi[1] * Pow2(d) + lo[1]
                  IN  f32_round(Sgn(S), Abs(S), lo[2], FALSE)
             ELSE LET t == Log2Floor(A) + d - 27
                      A2 == A * Pow2(d - t)
                      B2 == IF t > 24 THEN 0 ELSE B \div Pow2(t)
                      st == IF t > 24 THEN TRUE ELSE B % Pow2(t) # 0
                      S == IF Sgn(hi[1]) = Sgn(lo[1]) THEN A2 + B2
                           ELSE IF st THEN A2 - B2 - 1
                           ELSE A2 - B2
                  IN  f32_round(Sgn(hi[1]), S, lo[2] + t, st)

f32_sub(a, b) == f32_add(a, f32_neg(b))

\* long division: the quotient q of the significands is extended one bit at a
\* time until the division is exact or q has 26 bits
RECURSIVE f32_div_bits(_, _, _, _)
f32_div_bits(q, rem, B, k) ==
    IF rem = 0 \/ q >= Pow2(25) THEN <<q, rem, k>>
    ELSE IF 2 * rem >= B THEN f32_div_bits(2 * q + 1, 2 * rem - B, B, k + 1)
    ELSE f32_div_bits(2 * q, 2 * rem, B, k + 1)

\* a / b for b # 0
f32_div(a, b) ==
    LET A == Abs(a[1])
        B == Abs(b[1])
        d == f32_div_bits(A \div B, A % B, B, 0)
    IN  f32_round(Sgn(a[1]) * Sgn(b[1]), d[1], a[2] - b[2] - d[3], d[2] # 0)

\* a < b
f32_lt(a, b) == f32_sub(a, b)[1] < 0

\* the literal 0.000001 as an f32
Tolerance == <<8796093, 0 - 43>>

\* (a - b).abs() < 0.000001
f32_close(a, b) == f32_lt(f32_abs(f32_sub(a, b)), Tolerance)

---------------------------------------------------------------------------
(* Vector kernel: a VecN is the sequence of its N f32 components *)

Vec2_new(x, y) == <<f32_from(x), f32_from(y)>>

Vec3_new(x, y, z) == <<f32_from(x), f32_from(y), f32_from(z)>>

Vec4_new(x, y, z, w) == <<f32_from(x), f32_from(y), f32_from(z), f32_from(w)>>

Vec2_sub(a, b) == <<f32_sub(a[1], b[1]), f32_sub(a[2], b[2])>>

Vec3_sub(a, b) == <<f32_sub(a[1], b[1]), f32_sub(a[2], b[2]), f32_sub(a[3], b[3])>>

Vec4_sub(a, b) ==
    <<f32_sub(a[1], b[1]), f32_sub(a[2], b[2]), f32_sub(a[3], b[3]), f32_sub(a[4], b[4])>>

\* `a -= b`: the value a holds afterwards
Vec2_sub_assign(a, b) == <<f32_sub(a[1], b[1]), f32_sub(a[2], b[2])>>

\* x and y are subtracted; z is not touched
Vec3_sub_assign(a, b) == <<f32_sub(a[1], b[1]), f32_sub(a[2], b[2]), a[3]>>

\* x and y are subtracted; z and w are not touched
Vec4_sub_assign(a, b) == <<f32_sub(a[1], b[1]), f32_sub(a[2], b[2]), a[3], a[4]>>

Vec3_mul_f32(a, s) == <<f32_mul(a[1], s), f32_mul(a[2], s), f32_mul(a[3], s)>>

Vec4_mul_f32(a, s) ==
    <<f32_mul(a[1], s), f32_mul(a[2], s), f32_mul(a[3], s), f32_mul(a[4], s)>>

Vec3_neg(a) == <<f32_neg(a[1]), f32_neg(a[2]), f32_neg(a[3])>>

\* cross product `a ^ b` of Vec2: a scalar
Vec2_bitxor(a, b) == f32_sub(f32_mul(a[1], b[2]), f32_mul(a[2], b[1]))

Vec3_bitxor_left_handed(a, b) ==
    <<f32_sub(f32_mul(a[3], b[2]), f32_mul(a[2], b[3])),
      f32_sub(f32_mul(a[1], b[3]), f32_mul(a[3], b[1])),
      f32_sub(f32_mul(a[2], b[1]), f32_mul(a[1], b[2]))>>

\* cross product `a ^ b` of Vec3
Vec3_bitxor(a, b) ==
    <<f32_sub(f32_mul(a[2], b[3]), f32_mul(a[3], b[2])),
      f32_sub(f32_mul(a[3], b[1]), f32_mul(a[1], b[3])),
      f32_sub(f32_mul(a[1], b[2]), f32_mul(a[2], b[1]))>>

\* `a == b`: every component differs by less than 0.000001
Vec2_eq(a, b) == f32_close(a[1], b[1]) /\ f32_close(a[2], b[2])

Vec3_eq(a, b) == f32_close(a[1], b[1]) /\ f32_close(a[2], b[2]) /\ f32_close(a[3], b[3])

Vec4_eq(a, b) ==
    f32_close(a[1], b[1]) /\ f32_close(a[2], b[2]) /\ f32_close(a[3], b[3])
        /\ f32_close(a[4], b[4])

\* `v[index]`: the component read, or nothing when the access panics
Vec2_index(v, index) ==
    CASE index = 0 -> <<v[1]>>
      [] index = 1 -> <<v[2]>>
      [] OTHER -> << >>

Vec3_index(v, index) ==
    CASE index = 0 -> <<v[1]>>
      [] index = 1 -> <<v[2]>>
      [] index = 2 -> <<v[3]>>
      [] OTHER -> << >>

Vec4_index(v, index) ==
    CASE index = 0 -> <<v[1]>>
      [] index = 1 -> <<v[2]>>
      [] index = 2 -> <<v[3]>>
      [] index = 3 -> <<v[4]>>
      [] OTHER -> << >>

\* `v[index] = value`: v afterwards, or nothing when the access panics
Vec2_index_mut(v, index, value) ==
    CASE index = 0 -> <<[v EXCEPT ![1] = value]>>
      [] index = 1 -> <<[v EXCEPT ![2] = value]>>
      [] OTHER -> << >>

Vec3_index_mut(v, index, value) ==
    CASE index = 0 -> <<[v EXCEPT ![1] = value]>>
      [] index = 1 -> <<[v EXCEPT ![2] = value]>>
      [] index = 2 -> <<[v EXCEPT ![3] = value]>>
      [] OTHER -> << >>

Vec4_index_mut(v, index, value) ==
    CASE index = 0 -> <<[v EXCEPT ![1] = value]>>
      [] index = 1 -> <<[v EXCEPT ![2] = value]>>
      [] index = 2 -> <<[v EXCEPT ![3] = value]>>
      [] index = 3 -> <<[v EXCEPT ![4] = value]>>
      [] OTHER -> << >>

---------------------------------------------------------------------------
(* Matrix kernel: a matrix is the sequence of its row vectors x, y, z, w *)

Matrix2x2_identity == <<Vec2_new(1, 0), Vec2_new(0, 1)>>

Matrix3x3_identity == <<Vec3_new(1, 0, 0), Vec3_new(0, 1, 0), Vec3_new(0, 0, 1)>>

Matrix4x4_identity ==
    <<Vec4_new(1, 0, 0, 0), Vec4_new(0, 1, 0, 0), Vec4_new(0, 0, 1, 0), Vec4_new(0, 0, 0, 1)>>

\* derived PartialEq: the rows are compared with the VecN equality
Matrix2x2_eq(a, b) == Vec2_eq(a[1], b[1]) /\ Vec2_eq(a[2], b[2])

Matrix3x3_eq(a, b) == Vec3_eq(a[1], b[1]) /\ Vec3_eq(a[2], b[2]) /\ Vec3_eq(a[3], b[3])

Matrix4x4_eq(a, b) ==
    Vec4_eq(a[1], b[1]) /\ Vec4_eq(a[2], b[2]) /\ Vec4_eq(a[3], b[3]) /\ Vec4_eq(a[4], b[4])

\* `m[index]`: the row read, or nothing when the access panics
Matrix2x2_index(m, index) ==
    CASE index = 0 -> <<m[1]>>
      [] index = 1 -> <<m[2]>>
      [] OTHER -> << >>

Matrix3x3_index(m, index) ==
    CASE index = 0 -> <<m[1]>>
      [] index = 1 -> <<m[2]>>
      [] index = 2 -> <<m[3]>>
      [] OTHER -> << >>

Matrix4x4_index(m, index) ==
    CASE index = 0 -> <<m[1]>>
      [] index = 1 -> <<m[2]>>
      [] index = 2 -> <<m[3]>>
      [] index = 3 -> <<m[4]>>
      [] OTHER -> << >>

\* `m[index] = row`: m afterwards, or nothing when the access panics
Matrix2x2_index_mut(m, index, row) ==
    CASE index = 0 -> <<[m EXCEPT ![1] = row]>>
      [] index = 1 -> <<[m EXCEPT ![2] = row]>>
      [] OTHER -> << >>

Matrix3x3_index_mut_last_row(m, index, row) ==
    CASE index = 0 -> <<[m EXCEPT ![1] = row]>>
      [] index = 1 -> <<[m EXCEPT ![2] = row]>>
      [] OTHER -> <<[m EXCEPT ![3] = row]>>

Matrix3x3_index_mut(m, index, row) ==
    CASE index = 0 -> <<[m EXCEPT ![1] = row]>>
      [] index = 1 -> <<[m EXCEPT ![2] = row]>>
      [] index = 2 -> <<[m EXCEPT ![3] = row]>>
      [] OTHER -> << >>

Matrix4x4_index_mut(m, index, row) ==
    CASE index = 0 -> <<[m EXCEPT ![1] = row]>>
      [] index = 1 -> <<[m EXCEPT ![2] = row]>>
      [] index = 2 -> <<[m EXCEPT ![3] = row]>>
      [] index = 3 -> <<[m EXCEPT ![4] = row]>>
      [] OTHER -> << >>

Matrix2x2_transpose(m) == <<<<m[1][1], m[2][1]>>, <<m[1][2], m[2][2]>>>>

Matrix3x3_transpose(m) ==
    <<<<m[1][1], m[2][1], m[3][1]>>,
      <<m[1][2], m[2][2], m[3][2]>>,
      <<m[1][3], m[2][3], m[3][3]>>>>

Matrix4x4_transpose_rows_kept(m) ==
    <<<<m[1][1], m[2][1], m[3][1], m[4][1]>>,
      <<m[1][2], m[2][2], m[3][2], m[4][2]>>,
      <<m[3][1], m[3][2], m[3][3], m[3][4]>>,
      <<m[4][1], m[4][2], m[4][3], m[4][4]>>>>

Matrix4x4_transpose(m) ==
    <<<<m[1][1], m[2][1], m[3][1], m[4][1]>>,
      <<m[1][2], m[2][2], m[3][2], m[4][2]>>,
      <<m[1][3], m[2][3], m[3][3], m[4][3]>>,
      <<m[1][4], m[2][4], m[3][4], m[4][4]>>>>

Matrix2x2_determinant(m) ==
    f32_sub(f32_mul(m[1][1], m[2][2]), f32_mul(m[1][2], m[2][1]))

\* the matrix inverted, or nothing when inverse() panics
Matrix2x2_inverse(m) ==
    LET det == Matrix2x2_determinant(m)
    IN  IF det = <<0, 0>> THEN << >>
        ELSE << <<<<f32_div(m[2][2], det), f32_div(f32_neg(m[1][2]), det)>>,
                  <<f32_div(f32_neg(m[2][1]), det), f32_div(m[1][1], det)>>>> >>

Matrix2x2_mul(a, b) ==
    [i \in 1 .. 2 |-> [j \in 1 .. 2 |->
        f32_add(f32_mul(a[i][1], b[1][j]), f32_mul(a[i][2], b[2][j]))]]

\* `for j in 0..n`: column j of row i of `self` is copied to m[r][c] unless
\* j is col, and c counts the columns copied
RECURSIVE sub_matrix_columns(_, _, _, _, _, _, _, _)
sub_matrix_columns(self, n, col, i, r, j, c, m) ==
    IF j = n THEN m
    ELSE IF j = col THEN sub_matrix_columns(self, n, col, i, r, j + 1, c, m)
    ELSE sub_matrix_columns(self, n, col, i, r, j + 1, c + 1,
                            [m EXCEPT ![r + 1][c + 1] = self[i + 1][j + 1]])

\* `for i in 0..n`: row i of `self` is copied to row r of m unless i is row,
\* and r counts the rows copied
RECURSIVE sub_matrix_rows(_, _, _, _, _, _, _)
sub_matrix_rows(self, n, row, col, i, r, m) ==
    IF i = n THEN m
    ELSE IF i = row THEN sub_matrix_rows(self, n, row, col, i + 1, r, m)
    ELSE sub_matrix_rows(self, n, row, col, i + 1, r + 1,
                         sub_matrix_columns(self, n, col, i, r, 0, 0, m))

\* assert!(row < 3); assert!(col < 3);
Matrix3x3_sub_matrix_asserts(row, col) == row < 3 /\ col < 3

\* The minor is always the top left 2x2 block.
Matrix3x3_sub_matrix_top_left(m, row, col) ==
    [r \in 1 .. 2 |-> [c \in 1 .. 2 |-> m[r][c]]]

\* the matrix returned when both assertions hold
Matrix3x3_sub_matrix(m, row, col) ==
    sub_matrix_rows(m, 3, row, col, 0, 0, Matrix2x2_identity)

Matrix3x3_determinant_plus(m) ==
    f32_add(f32_add(f32_mul(m[1][1], Matrix2x2_determinant(Matrix3x3_sub_matrix(m, 0, 0))),
                    f32_mul(m[1][2], Matrix2x2_determinant(Matrix3x3_sub_matrix(m, 0, 1)))),
            f32_mul(m[1][3], Matrix2x2_determinant(Matrix3x3_sub_matrix(m, 0, 2))))

Matrix3x3_determinant(m) ==
    f32_add(f32_sub(f32_mul(m[1][1], Matrix2x2_determinant(Matrix3x3_sub_matrix(m, 0, 0))),
                    f32_mul(m[1][2], Matrix2x2_determinant(Matrix3x3_sub_matrix(m, 0, 1)))),
            f32_mul(m[1][3], Matrix2x2_determinant(Matrix3x3_sub_matrix(m, 0, 2))))

Matrix3x3_cofactor_matrix(m) ==
    [i \in 1 .. 3 |-> [j \in 1 .. 3 |->
        LET cofactor == Matrix2x2_determinant(Matrix3x3_sub_matrix(m, i - 1, j - 1))
        IN  IF ((i - 1) + (j - 1)) % 2 = 0 THEN cofactor ELSE f32_neg(cofactor)]]

Matrix3x3_adjugate_untransposed(m) == Matrix3x3_cofactor_matrix(m)

Matrix3x3_adjugate(m) == Matrix3x3_transpose(Matrix3x3_cofactor_matrix(m))

Matrix3x3_mul_f32(m, s) == <<Vec3_mul_f32(m[1], s), Vec3_mul_f32(m[2], s), Vec3_mul_f32(m[3], s)>>

Matrix3x3_inverse_tolerant(m) ==
    LET det == Matrix3x3_determinant(m)
    IN  IF f32_lt(f32_abs(det), f32_from(2)) THEN << >>
        ELSE <<Matrix3x3_mul_f32(Matrix3x3_adjugate(m), f32_div(f32_from(1), det))>>

Matrix3x3_inverse(m) ==
    LET det == Matrix3x3_determinant(m)
    IN  IF det = <<0, 0>> THEN << >>
        ELSE <<Matrix3x3_mul_f32(Matrix3x3_adjugate(m), f32_div(f32_from(1), det))>>

Matrix3x3_mul(a, b) ==
    [i \in 1 .. 3 |-> [j \in 1 .. 3 |->
        f32_add(f32_add(f32_mul(a[i][1], b[1][j]), f32_mul(a[i][2], b[2][j])),
                f32_mul(a[i][3], b[3][j]))]]

\* assert!(row < 4); assert!(col < 4);
Matrix4x4_sub_matrix_asserts(row, col) == row < 4 /\ col < 4

\* the matrix returned when both assertions hold
Matrix4x4_sub_matrix(m, row, col) ==
    sub_matrix_rows(m, 4, row, col, 0, 0, Matrix3x3_identity)

Matrix4x4_determinant(m) ==
    f32_sub(f32_add(f32_sub(
                f32_mul(m[1][1], Matrix3x3_determinant(Matrix4x4_sub_matrix(m, 0, 0))),
                f32_mul(m[1][2], Matrix3x3_determinant(Matrix4x4_sub_matrix(m, 0, 1)))),
                f32_mul(m[1][3], Matrix3x3_determinant(Matrix4x4_sub_matrix(m, 0, 2)))),
            f32_mul(m[1][4], Matrix3x3_determinant(Matrix4x4_sub_matrix(m, 0, 3))))

\* No cofactor is negated.
Matrix4x4_cofactor_matrix_unsigned(m) ==
    [i \in 1 .. 4 |-> [j \in 1 .. 4 |->
        Matrix3x3_determinant(Matrix4x4_sub_matrix(m, i - 1, j - 1))]]

Matrix4x4_cofactor_matrix(m) ==
    [i \in 1 .. 4 |-> [j \in 1 .. 4 |->
        LET cofactor == Matrix3x3_determinant(Matrix4x4_sub_matrix(m, i - 1, j - 1))
        IN  IF ((i - 1) + (j - 1)) % 2 = 0 THEN cofactor ELSE f32_neg(cofactor)]]

Matrix4x4_adjugate(m) == Matrix4x4_transpose(Matrix4x4_cofactor_matrix(m))

Matrix4x4_mul_f32(m, s) ==
    <<Vec4_mul_f32(m[1], s), Vec4_mul_f32(m[2], s), Vec4_mul_f32(m[3], s),
      Vec4_mul_f32(m[4], s)>>

Matrix4x4_inverse(m) ==
    LET det == Matrix4x4_determinant(m)
    IN  IF det = <<0, 0>> THEN << >>
        ELSE <<Matrix4x4_mul_f32(Matrix4x4_adjugate(m), f32_div(f32_from(1), det))>>

Matrix4x4_mul(a, b) ==
    [i \in 1 .. 4 |-> [j \in 1 .. 4 |->
        f32_add(f32_add(f32_add(f32_mul(a[i][1], b[1][j]), f32_mul(a[i][2], b[2][j])),
                        f32_mul(a[i][3], b[3][j])),
                f32_mul(a[i][4], b[4][j]))]]

\* method calls resolved by the type of the receiver
determinant(m) ==
    CASE Len(m) = 2 -> Matrix2x2_determinant(m)
      [] Len(m) = 3 -> Matrix3x3_determinant(m)
      [] Len(m) = 4 -> Matrix4x4_determinant(m)

inverse(m) ==
    CASE Len(m) = 2 -> Matrix2x2_inverse(m)
      [] Len(m) = 3 -> Matrix3x3_inverse(m)
      [] Len(m) = 4 -> Matrix4x4_inverse(m)

transpose(m) ==
    CASE Len(m) = 2 -> Matrix2x2_transpose(m)
      [] Len(m) = 3 -> Matrix3x3_transpose(m)
      [] Len(m) = 4 -> Matrix4x4_transpose(m)

mul(a, b) ==
    CASE Len(a) = 2 -> Matrix2x2_mul(a, b)
      [] Len(a) = 3 -> Matrix3x3_mul(a, b)
      [] Len(a) = 4 -> Matrix4x4_mul(a, b)

identity(n) ==
    CASE n = 2 -> Matrix2x2_identity
      [] n = 3 -> Matrix3x3_identity
      [] n = 4 -> Matrix4x4_identity

\* `a == b` for two matrices of the same type
eq(a, b) ==
    CASE Len(a) = 2 -> Matrix2x2_eq(a, b)
      [] Len(a) = 3 -> Matrix3x3_eq(a, b)
      [] Len(a) = 4 -> Matrix4x4_eq(a, b)

---------------------------------------------------------------------------
(* The vector and matrix kernels applied to bounded inputs *)

MaxEntry == 2

MaxIndex == 5

MaxCoord == 1

Entries == (0 - MaxEntry) .. MaxEntry

\* the matrices of the kernel's tests, and two with a determinant that is
\* not a power of two
SampleMatrices2 ==
    { <<Vec2_new(1, 2), Vec2_new(3, 4)>>,
      <<Vec2_new(1, 2), Vec2_new(2, 4)>>,
      <<Vec2_new(6, 6), Vec2_new(5, 4)>>,
      <<Vec2_new(8, 7), Vec2_new(5, 4)>> }

Matrices2 ==
    { <<Vec2_new(a, b), Vec2_new(c, d)>> : a \in Entries, b \in Entries,
                                           c \in Entries, d \in Entries }
        \cup SampleMatrices2

Rows3 ==
    { Vec3_new(1, 2, 3), Vec3_new(4, 5, 6), Vec3_new(7, 8, 9),
      Vec3_new(0, 1, 4), Vec3_new(5, 6, 0), Vec3_new(0 - 1, 0, 2),
      Vec3_new(0, 0, 1) }

Matrices3 == { <<x, y, z>> : x \in Rows3, y \in Rows3, z \in Rows3 }

Rows4 ==
    { Vec4_new(1, 8, 14, 3), Vec4_new(9, 5, 6, 13), Vec4_new(15, 2, 4, 11),
      Vec4_new(7, 12, 16, 10), Vec4_new(0, 0 - 1, 0, 2) }

\* the singular matrix of test_matrix4x4_determinant
Counting4 ==
    <<Vec4_new(1, 2, 3, 4), Vec4_new(5, 6, 7, 8), Vec4_new(9, 10, 11, 12),
      Vec4_new(13, 14, 15, 16)>>

Matrices4 ==
    { <<x, y, z, w>> : x \in Rows4, y \in Rows4, z \in Rows4, w \in Rows4 }
        \cup {Counting4}

Matrices == Matrices2 \cup Matrices3 \cup Matrices4

Coords == (0 - 1) .. MaxCoord

\* the left operands: every vector over Coords
Vectors ==
    { Vec2_new(x, y) : x \in Coords, y \in Coords }
        \cup { Vec3_new(x, y, z) : x \in Coords, y \in Coords, z \in Coords }
        \cup { Vec4_new(x, y, z, w) : x \in Coords, y \in Coords, z \in Coords, w \in Coords }

\* the right operands: the axes and one vector with no zero component
Operands ==
    { Vec2_new(1, 0), Vec2_new(0, 1), Vec2_new(2, 0 - 3),
      Vec3_new(1, 0, 0), Vec3_new(0, 1, 0), Vec3_new(0, 0, 1), Vec3_new(2, 0 - 3, 5),
      Vec4_new(1, 0, 0, 0), Vec4_new(0, 0, 1, 0), Vec4_new(0, 0, 0, 1),
      Vec4_new(2, 0 - 3, 5, 0 - 7) }

VectorPairs == { <<a, b>> \in Vectors \X Operands : Len(a) = Len(b) }

Inputs ==
    { Call("matrix", <<m>>, << >>) : m \in Matrices }
        \cup { Call("vectors", p, << >>) : p \in VectorPairs }

\* the row written by the IndexMut action: N components of 9.0
NewRow(n) == [j \in 1 .. n |-> f32_from(9)]

index(m, i) ==
    CASE Len(m) = 2 -> Matrix2x2_index(m, i)
      [] Len(m) = 3 -> Matrix3x3_index(m, i)
      [] Len(m) = 4 -> Matrix4x4_index(m, i)

index_mut(m, i, row) ==
    CASE Len(m) = 2 -> Matrix2x2_index_mut(m, i, row)
      [] Len(m) = 3 -> Matrix3x3_index_mut(m, i, row)
      [] Len(m) = 4 -> Matrix4x4_index_mut(m, i, row)

InitGeom ==
    /\ ShapeManager_new
    /\ config = [time |-> 0, width |-> 0, height |-> 0,
                 shape_count |-> 0, sphere_count |-> 0, cube_count |-> 0]
    /\ fatal = FALSE
    /\ ret \in Inputs

\* the matrix the next method call is made on: the input, or the result of
\* the call just made on the input
Receiver == IF ret.op = "matrix" THEN ret.args[1] ELSE ret.out[1]

\* m.determinant()
Determinant ==
    /\ ~fatal
    /\ ret.op = "matrix"
    /\ ret' = Call("determinant", ret.args, <<determinant(ret.args[1])>>)
    /\ UNCHANGED <<shapes, indices, map, config, fatal>>

\* m.inverse(), and m.inverse().inverse()
Inverse ==
    /\ ~fatal
    /\ ret.op \in {"matrix", "inverse"}
    /\ ret.args[1] \in Matrices
    /\ ret' = Call("inverse", <<Receiver>>, inverse(Receiver))
    /\ fatal' = (inverse(Receiver) = << >>)
    /\ UNCHANGED <<shapes, indices, map, config>>

\* m * m.inverse()
MulInverse ==
    /\ ~fatal
    /\ ret.op = "inverse"
    /\ ret.args[1] \in Matrices
    /\ ret' = Call("mul", <<ret.args[1], ret.out[1]>>, <<mul(ret.args[1], ret.out[1])>>)
    /\ UNCHANGED <<shapes, indices, map, config, fatal>>

\* m.transpose(), and m.transpose().transpose()
Transpose ==
    /\ ~fatal
    /\ ret.op \in {"matrix", "transpose"}
    /\ ret.args[1] \in Matrices
    /\ ret' = Call("transpose", <<Receiver>>, <<transpose(Receiver)>>)
    /\ UNCHANGED <<shapes, indices, map, config, fatal>>

\* m[i]
Index(i) ==
    /\ ~fatal
    /\ ret.op = "matrix"
    /\ ret' = Call("index", <<ret.args[1], i>>, index(ret.args[1], i))
    /\ fatal' = (index(ret.args[1], i) = << >>)
    /\ UNCHANGED <<shapes, indices, map, config>>

\* m[i] = row
IndexMut(i) ==
    /\ ~fatal
    /\ ret.op = "matrix"
    /\ ret' = Call("index_mut", <<ret.args[1], i, NewRow(Len(ret.args[1]))>>,
                   index_mut(ret.args[1], i, NewRow(Len(ret.args[1]))))
    /\ fatal' = (index_mut(ret.args[1], i, NewRow(Len(ret.args[1]))) = << >>)
    /\ UNCHANGED <<shapes, indices, map, config>>

\* the value written by the vector IndexMut action
NewValue == f32_from(9)

sub(a, b) ==
    CASE Len(a) = 2 -> Vec2_sub(a, b)
      [] Len(a) = 3 -> Vec3_sub(a, b)
      [] Len(a) = 4 -> Vec4_sub(a, b)

sub_assign(a, b) ==
    CASE Len(a) = 2 -> Vec2_sub_assign(a, b)
      [] Len(a) = 3 -> Vec3_sub_assign(a, b)
      [] Len(a) = 4 -> Vec4_sub_assign(a, b)

\* Vec2 and Vec3 have a cross product, Vec4 has none
bitxor(a, b) ==
    CASE Len(a) = 2 -> Vec2_bitxor(a, b)
      [] Len(a) = 3 -> Vec3_bitxor(a, b)

vec_eq(a, b) ==
    CASE Len(a) = 2 -> Vec2_eq(a, b)
      [] Len(a) = 3 -> Vec3_eq(a, b)
      [] Len(a) = 4 -> Vec4_eq(a, b)

vec_index(v, i) ==
    CASE Len(v) = 2 -> Vec2_index(v, i)
      [] Len(v) = 3 -> Vec3_index(v, i)
      [] Len(v) = 4 -> Vec4_index(v, i)

vec_index_mut(v, i, value) ==
    CASE Len(v) = 2 -> Vec2_index_mut(v, i, value)
      [] Len(v) = 3 -> Vec3_index_mut(v, i, value)
      [] Len(v) = 4 -> Vec4_index_mut(v, i, value)

\* a - b
Sub ==
    /\ ~fatal
    /\ ret.op = "vectors"
    /\ ret' = Call("sub", ret.args, <<sub(ret.args[1], ret.args[2])>>)
    /\ UNCHANGED <<shapes, indices, map, config, fatal>>

\* a -= b
SubAssign ==
    /\ ~fatal
    /\ ret.op = "vectors"
    /\ ret' = Call("sub_assign", ret.args, <<sub_assign(ret.args[1], ret.args[2])>>)
    /\ UNCHANGED <<shapes, indices, map, config, fatal>>

\* a ^ b
BitXor ==
    /\ ~fatal
    /\ ret.op = "vectors"
    /\ Len(ret.args[1]) < 4
    /\ ret' = Call("bitxor", ret.args, <<bitxor(ret.args[1], ret.args[2])>>)
    /\ UNCHANGED <<shapes, indices, map, config, fatal>>

\* a[i]
VecIndex(i) ==
    /\ ~fatal
    /\ ret.op = "vectors"
    /\ ret' = Call("vec_index", <<ret.args[1], i>>, vec_index(ret.args[1], i))
    /\ fatal' = (vec_index(ret.args[1], i) = << >>)
    /\ UNCHANGED <<shapes, indices, map, config>>

\* a[i] = value
VecIndexMut(i) ==
    /\ ~fatal
    /\ ret.op = "vectors"
    /\ ret' = Call("vec_index_mut", <<ret.args[1], i, NewValue>>,
                   vec_index_mut(ret.args[1], i, NewValue))
    /\ fatal' = (vec_index_mut(ret.args[1], i, NewValue) = << >>)
    /\ UNCHANGED <<shapes, indices, map, config>>

NextGeom ==
    \/ Determinant
    \/ Inverse
    \/ MulInverse
    \/ Transpose
    \/ \E i \in 0 .. MaxIndex : Index(i)
    \/ \E i \in 0 .. MaxIndex : IndexMut(i)
    \/ Sub
    \/ SubAssign
    \/ BitXor
    \/ \E i \in 0 .. MaxIndex : VecIndex(i)
    \/ \E i \in 0 .. MaxIndex : VecIndexMut(i)

SpecGeom == InitGeom /\ [][NextGeom]_vars

---------------------------------------------------------------------------
(* Claims about the matrix kernel *)

Zero == <<0, 0>>

Singular3 == <<Vec3_new(1, 2, 3), Vec3_new(4, 5, 6), Vec3_new(7, 8, 9)>>

Regular3 == <<Vec3_new(1, 2, 3), Vec3_new(0, 1, 4), Vec3_new(5, 6, 0)>>

Regular3Inverse ==
    <<Vec3_new(0 - 24, 18, 5), Vec3_new(20, 0 - 15, 0 - 4), Vec3_new(0 - 5, 4, 1)>>

\* C11: inverse() of a 2x2, 3x3 or 4x4 matrix ends in a fatal error exactly
\* when determinant() of that matrix is exactly zero, and returns a matrix of
\* the same size otherwise; inverting rows (1,2,3),(4,5,6),(7,8,9) is fatal.
C11_InverseFatalIffDeterminantZero ==
    ret.op = "inverse" =>
        /\ fatal <=> (determinant(ret.args[1]) = Zero)
        /\ fatal => ret.out = << >>
        /\ ~fatal => /\ Len(ret.out) = 1
                     /\ Len(ret.out[1]) = Len(ret.args[1])
                     /\ \A i \in 1 .. Len(ret.args[1]) :
                            Len(ret.out[1][i]) = Len(ret.args[1])
        /\ ret.args[1] = Singular3 => fatal

\* the singular 3x3 matrix of the tests has been inverted and the call was fatal
C11_Witness ==
    /\ ret.op = "inverse"
    /\ ret.args[1] = Singular3
    /\ fatal

\* the determinant is plus or minus a power of two, so dividing by it is exact
PowerOfTwo(det) == Abs(det[1]) = 1

C13_TransposeSwapsAndRoundTrips ==
    [][ret'.op = "transpose" =>
          /\ \A i \in 1 .. Len(ret'.args[1]), j \in 1 .. Len(ret'.args[1]) :
                 ret'.out[1][j][i] = ret'.args[1][i][j]
          /\ ret.op = "transpose" =>
                 /\ ret'.out[1] = ret.args[1]
                 /\ eq(ret'.out[1], ret.args[1])]_vars

\* the transpose of the 4x4 matrix of rows 1..16 has been transposed again
C13_Witness ==
    /\ ret.op = "transpose"
    /\ ret.args[1] = Matrix4x4_transpose(Counting4)
    /\ ret.out = <<Counting4>>
    /\ ret.args[1] # Counting4

\* the integer an f32 with no fractional part stands for
IntOf(a) == a[1] * Pow2(a[2])

Perms(n) == { p \in [1 .. n -> 1 .. n] : \A i, j \in 1 .. n : i # j => p[i] # p[j] }

\* +1 for an even permutation and -1 for an odd one
PermSign(p) ==
    LET n == Len(p)
        inversions == { <<i, j>> \in (1 .. n) \X (1 .. n) : i < j /\ p[i] > p[j] }
    IN  IF Cardinality(inversions) % 2 = 0 THEN 1 ELSE 0 - 1

RECURSIVE ProdUpTo(_, _, _)
ProdUpTo(m, p, i) == IF i = 0 THEN 1 ELSE IntOf(m[i][p[i]]) * ProdUpTo(m, p, i - 1)

RECURSIVE SumPerms(_, _)
SumPerms(m, ps) ==
    IF ps = {} THEN 0
    ELSE LET p == CHOOSE q \in ps : TRUE
         IN  PermSign(p) * ProdUpTo(m, p, Len(m)) + SumPerms(m, ps \ {p})

\* the permutation-sum (Leibniz) determinant of an integer matrix
LeibnizDeterminant(m) == SumPerms(m, Perms(Len(m)))

\* first-row entry j (0-based) times the determinant of the minor sub_matrix(0, j)
FirstRowTerm(m, j) ==
    IntOf(m[1][j + 1]) *
        IntOf(IF Len(m) = 3 THEN Matrix2x2_determinant(Matrix3x3_sub_matrix(m, 0, j))
              ELSE Matrix3x3_determinant(Matrix4x4_sub_matrix(m, 0, j)))

\* the cofactor expansion along the first row, signs +,-,+,-
FirstRowExpansion(m) ==
    IF Len(m) = 3
    THEN FirstRowTerm(m, 0) - FirstRowTerm(m, 1) + FirstRowTerm(m, 2)
    ELSE FirstRowTerm(m, 0) - FirstRowTerm(m, 1) + FirstRowTerm(m, 2) - FirstRowTerm(m, 3)

\* C14: determinant() of a 3x3 and of a 4x4 matrix is the cofactor expansion
\* along the first row with signs +,-,+,-, and for every integer matrix of
\* the bounded range it is the permutation-sum determinant; rows
\* (1,2,3),(4,5,6),(7,8,9) give 0 and the 2x2 matrix (1,2),(3,4) gives -2.
C14_DeterminantIsFirstRowExpansion ==
    ret.op = "determinant" =>
        /\ Len(ret.args[1]) > 2 => ret.out[1] = f32_from(FirstRowExpansion(ret.args[1]))
        /\ ret.out[1] = f32_from(LeibnizDeterminant(ret.args[1]))
        /\ ret.args[1] = Singular3 => ret.out[1] = Zero
        /\ ret.args[1] = <<Vec2_new(1, 2), Vec2_new(3, 4)>> => ret.out[1] = f32_from(0 - 2)

\* the determinant of the 4x4 matrix of test_matrix4x4_inverse has been
\* computed: 2646
C14_Witness ==
    /\ ret.op = "determinant"
    /\ ret.args[1] = <<Vec4_new(1, 8, 14, 3), Vec4_new(9, 5, 6, 13),
                       Vec4_new(15, 2, 4, 11), Vec4_new(7, 12, 16, 10)>>
    /\ ret.out = <<f32_from(2646)>>

---------------------------------------------------------------------------
(* Claims about the vector kernel and about indexing *)

\* C15 (as claimed): for Vec2, Vec3 and Vec4, `a -= b` leaves a equal to
\* `a - b`: every one of the N components of b is subtracted from the
\* matching component of a.
C15_SubAssignEqualsSub ==
    ret.op = "sub_assign" =>
        /\ vec_eq(ret.out[1], sub(ret.args[1], ret.args[2]))
        /\ \A k \in 1 .. Len(ret.args[1]) :
               ret.out[1][k] = f32_sub(ret.args[1][k], ret.args[2][k])

\* C16: the Vec3 cross product a ^ b is the right-handed formula
\* (a.y*b.z - a.z*b.y, a.z*b.x - a.x*b.z, a.x*b.y - a.y*b.x) and equals
\* -(b ^ a); the Vec2 cross product is the scalar x1*y2 - y1*x2.
C16_CrossProduct ==
    ret.op = "bitxor" =>
        LET a == ret.args[1]
            b == ret.args[2]
            ax == IntOf(a[1])
            ay == IntOf(a[2])
            bx == IntOf(b[1])
            by == IntOf(b[2])
        IN  IF Len(a) = 3
            THEN LET az == IntOf(a[3])
                     bz == IntOf(b[3])
                 IN  /\ ret.out[1] = Vec3_new(ay * bz - az * by, az * bx - ax * bz,
                                              ax * by - ay * bx)
                     /\ Vec3_eq(ret.out[1], Vec3_neg(Vec3_bitxor(b, a)))
            ELSE ret.out[1] = f32_from(ax * by - ay * bx)

\* x ^ y has been computed for the unit vectors x and y: it is z
C16_Witness ==
    /\ ret.op = "bitxor"
    /\ ret.args = <<Vec3_new(1, 0, 0), Vec3_new(0, 1, 0)>>
    /\ ret.out = <<Vec3_new(0, 0, 1)>>

\* C17: indexing a VecN or an NxN matrix with an index in 0..N-1 reads, or
\* writes, exactly that component or row and no other, and an index >= N is
\* fatal for reads and for writes.
C17_IndexInRangeOrFatal ==
    /\ ret.op \in {"index", "vec_index"} =>
          IF ret.args[2] < Len(ret.args[1])
          THEN ~fatal /\ ret.out = <<ret.args[1][ret.args[2] + 1]>>
          ELSE fatal /\ ret.out = << >>
    /\ ret.op \in {"index_mut", "vec_index_mut"} =>
          IF ret.args[2] < Len(ret.args[1])
          THEN /\ ~fatal
               /\ Len(ret.out) = 1
               /\ Len(ret.out[1]) = Len(ret.args[1])
               /\ \A k \in 1 .. Len(ret.args[1]) :
                      ret.out[1][k] = IF k = ret.args[2] + 1 THEN ret.args[3]
                                      ELSE ret.args[1][k]
          ELSE fatal /\ ret.out = << >>

\* row 2 of the 4x4 matrix of rows 1..16 has been overwritten
C17_Witness ==
    /\ ret.op = "index_mut"
    /\ ret.args[1] = Counting4
    /\ ret.args[2] = 2
    /\ ~fatal
    /\ ret.out[1][3] = NewRow(4)
    /\ ret.out[1][4] = Counting4[4]

---------------------------------------------------------------------------
(* Cube: the spatial transform, applied to one cube of a manager *)

\* `lhs * rhs` of two Quaternion<f32> <<s, x, y, z>>: the Hamilton product
Quaternion_mul(lhs, rhs) ==
    <<f32_sub(f32_sub(f32_sub(f32_mul(lhs[1], rhs[1]), f32_mul(lhs[2], rhs[2])),
                      f32_mul(lhs[3], rhs[3])), f32_mul(lhs[4], rhs[4])),
      f32_sub(f32_add(f32_add(f32_mul(lhs[1], rhs[2]), f32_mul(lhs[2], rhs[1])),
                      f32_mul(lhs[3], rhs[4])), f32_mul(lhs[4], rhs[3])),
      f32_sub(f32_add(f32_add(f32_mul(lhs[1], rhs[3]), f32_mul(lhs[3], rhs[1])),
                      f32_mul(lhs[4], rhs[2])), f32_mul(lhs[2], rhs[4])),
      f32_sub(f32_add(f32_add(f32_mul(lhs[1], rhs[4]), f32_mul(lhs[4], rhs[1])),
                      f32_mul(lhs[2], rhs[3])), f32_mul(lhs[3], rhs[2]))>>

Cube_set_bounds(cube, bounds) == [cube EXCEPT !.bounds = bounds]

Cube_translate(cube, translation) ==
    [cube EXCEPT !.pos = <<@[1] + translation[1], @[2] + translation[2],
                           @[3] + translation[3]>>]

Cube_set_pos(cube, pos) == [cube EXCEPT !.pos = pos]

Cube_rotate(cube, rotation) == [cube EXCEPT !.rot = Quaternion_mul(@, rotation)]

Cube_set_rotation(cube, rotation) == [cube EXCEPT !.rot = rotation]

MaxPos == 2

Half == <<1, 0 - 1>>

MinusHalf == <<0 - 1, 0 - 1>>

\* the orientations a caller passes: none, a third of a turn about the
\* diagonal (1,1,1) either way, and half a turn about z
Rotations ==
    { QuatIdentity,
      <<Half, Half, Half, Half>>,
      <<Half, MinusHalf, MinusHalf, MinusHalf>>,
      << <<0, 0>>, <<0, 0>>, <<0, 0>>, <<1, 0>> >> }

BoundsInputs == { <<1, 1, 1>>, <<1, 2, 3>> }

PosInputs == { <<0, 0, 0>>, <<1, 1, 0>> }

\* a manager holding the one cube that new_cube has just made
InitCube ==
    /\ \E c \in CubeInputs :
          /\ shapes = <<Cube(c[1], c[2], QuatIdentity, c[3], 0)>>
          /\ ret = Call("new_cube", c, <<0>>)
    /\ indices = [k \in 0 .. KindSlots - 1 |-> IF k = 1 THEN 1 ELSE 0]
    /\ map = << << >>, <<0>> >>
    /\ config = [time |-> 0, width |-> 0, height |-> 0,
                 shape_count |-> 0, sphere_count |-> 0, cube_count |-> 0]
    /\ fatal = FALSE

\* get_cube_mut(0).unwrap().set_bounds(bounds)
SetBounds(bounds) ==
    /\ shapes' = [shapes EXCEPT ![1] = Cube_set_bounds(@, bounds)]
    /\ ret' = Call("set_bounds", <<bounds>>, << >>)
    /\ UNCHANGED <<indices, map, config, fatal>>

Translate(translation) ==
    /\ shapes[1].pos[1] + translation[1] <= MaxPos
    /\ shapes' = [shapes EXCEPT ![1] = Cube_translate(@, translation)]
    /\ ret' = Call("translate", <<translation>>, << >>)
    /\ UNCHANGED <<indices, map, config, fatal>>

SetPos(pos) ==
    /\ shapes' = [shapes EXCEPT ![1] = Cube_set_pos(@, pos)]
    /\ ret' = Call("set_pos", <<pos>>, << >>)
    /\ UNCHANGED <<indices, map, config, fatal>>

Rotate(rotation) ==
    /\ shapes' = [shapes EXCEPT ![1] = Cube_rotate(@, rotation)]
    /\ ret' = Call("rotate", <<rotation>>, << >>)
    /\ UNCHANGED <<indices, map, config, fatal>>

SetRotation(rotation) ==
    /\ shapes' = [shapes EXCEPT ![1] = Cube_set_rotation(@, rotation)]
    /\ ret' = Call("set_rotation", <<rotation>>, << >>)
    /\ UNCHANGED <<indices, map, config, fatal>>

GetWorldBoundingBox ==
    /\ ret' = Call("get_world_bounding_box", << >>, <<get_world_bounding_box(shapes[1])>>)
    /\ UNCHANGED <<shapes, indices, map, config, fatal>>

NextCube ==
    \/ \E bounds \in BoundsInputs : SetBounds(bounds)
    \/ \E translation \in {<<1, 0, 0>>} : Translate(translation)
    \/ \E pos \in PosInputs : SetPos(pos)
    \/ \E rotation \in Rotations : Rotate(rotation)
    \/ \E rotation \in Rotations : SetRotation(rotation)
    \/ GetWorldBoundingBox

SpecCube == InitCube /\ [][NextCube]_vars

---------------------------------------------------------------------------
(* Claims about the cube's bounding box *)

Vec3_add(a, b) == <<f32_add(a[1], b[1]), f32_add(a[2], b[2]), f32_add(a[3], b[3])>>

Vec3_from(v) == Vec3_new(v[1], v[2], v[3])

\* the vector v turned by the unit quaternion q = <<s, u>>:
\* v + 2 * (s * (u x v) + u x (u x v))
Turn(q, v) ==
    LET u == <<q[2], q[3], q[4]>>
        uv == Vec3_bitxor(u, v)
    IN  Vec3_add(v, Vec3_mul_f32(Vec3_add(Vec3_mul_f32(uv, q[1]), Vec3_bitxor(u, uv)),
                                 f32_from(2)))

Signs == {0 - 1, 1}

\* the 8 corners of the cube in world space: the half-extents, signed, turned
\* by the orientation and moved to the position
OrientedCorners(cube) ==
    { Vec3_add(Vec3_from(cube.pos),
               Turn(cube.rot, Vec3_new(sx * cube.bounds[1], sy * cube.bounds[2],
                                       sz * cube.bounds[3]))) :
        sx \in Signs, sy \in Signs, sz \in Signs }

f32_le(a, b) == ~f32_lt(b, a)

\* C20 (as claimed): the world bounding box of a Cube is the axis-aligned box
\* around its 8 corners as positioned, scaled by the half-extents and turned
\* by the current orientation: it encloses all 8 oriented corners, and each
\* of its faces touches one of them.
C20_BoxEnclosesOrientedCorners ==
    ret.op = "get_world_bounding_box" =>
        LET lo == Vec3_from(ret.out[1][1])
            hi == Vec3_from(ret.out[1][2])
            corners == OrientedCorners(shapes[1])
        IN  \A k \in 1 .. 3 :
               /\ \A c \in corners : f32_le(lo[k], c[k]) /\ f32_le(c[k], hi[k])
               /\ \E c \in corners : c[k] = lo[k]
               /\ \E c \in corners : c[k] = hi[k]

---------------------------------------------------------------------------
(* Claims about the manager over sequences of calls *)

\* the Enabled flag of the shape in slot i (1-based) of collection sh
Enabled(sh, i) == sh[i].flags.enabled

\* C18: a shape made by a factory call starts Enabled; a manager call changes
\* the Enabled flag of a stored shape only when it is new_union with two
\* valid operands, which clears the flag of exactly those two shapes; no
\* manager call sets a cleared flag.  (set_flag through a handle is the
\* caller's own change and is not a manager call.)
C18_EnabledOnlyClearedByUnion ==
    [][ret'.op # "set_flag" =>
          /\ \A i \in Len(shapes) + 1 .. Len(shapes') : Enabled(shapes', i)
          /\ \A i \in 1 .. Len(shapes) :
                 /\ Enabled(shapes', i) => Enabled(shapes, i)
                 /\ Enabled(shapes', i) # Enabled(shapes, i) =>
                        /\ ret'.op = "new_union"
                        /\ i - 1 \in {ret'.args[1], ret'.args[2]}
                        /\ Len(get_shape(ret'.args[1])) = 1
                        /\ Len(get_shape(ret'.args[2])) = 1
          /\ (ret'.op = "new_union" /\ Len(get_shape(ret'.args[1])) = 1
                  /\ Len(get_shape(ret'.args[2])) = 1) =>
                 /\ ~Enabled(shapes', ret'.args[1] + 1)
                 /\ ~Enabled(shapes', ret'.args[2] + 1)]_vars

\* new_union(0, 1) has cleared the flags of a sphere and a cube
C18_Witness ==
    /\ ret.op = "new_union"
    /\ ret.args = <<0, 1>>
    /\ Len(shapes) >= 2
    /\ shapes[1].kind = "Sphere"
    /\ shapes[2].kind = "Cube"
    /\ ~Enabled(shapes, 1)
    /\ ~Enabled(shapes, 2)

\* C19: the collection only grows: no call lowers the shape count, a stored
\* shape keeps its slot, its kind and its kind-local index, and a new shape
\* never gets the kind-local index of a stored shape of its kind.
C19_AppendOnly ==
    [][/\ Len(shapes') >= Len(shapes)
       /\ \A i \in 1 .. Len(shapes) :
              /\ shapes'[i].kind = shapes[i].kind
              /\ shapes'[i].index = shapes[i].index
       /\ \A i \in Len(shapes) + 1 .. Len(shapes'), j \in 1 .. Len(shapes) :
              shapes[j].kind = shapes'[i].kind => shapes[j].index # shapes'[i].index]_vars

\* a second cube has been stored after the first: indices 0 and 1
C19_Witness ==
    /\ ret.op = "new_cube"
    /\ Len(shapes) = 2
    /\ shapes[1].kind = "Cube"
    /\ shapes[2].kind = "Cube"
    /\ shapes[1].index = 0
    /\ shapes[2].index = 1

---------------------------------------------------------------------------
(* Camera: the pinhole model built from an image size and two fields of view *)

Pi_below == <<6588397, 0 - 21>>     \* the largest f32 below pi

Pi_half == <<13176795, 0 - 23>>     \* the f32 nearest pi / 2

\* the field-of-view angles a caller passes, all inside (0, pi)
Fovs == { Pi_below, Pi_half, f32_from(1), f32_from(2), f32_from(3), <<1, 0 - 20>> }

\* the image widths and heights a caller passes; the last is rounded by
\* `as f32`
ImageSizes == { 1, 3, 800, 2147483647 }

\* x.tan() at the halves of the angles of Fovs.  The precision of f32::tan is
\* left to the platform, so the result is any of the correctly rounded
\* tangent and its two neighbours.
f32_tan(x) ==
    CASE x = <<6588397, 0 - 22>> -> { <<13245401, 0>>, <<6622701, 1>>, <<13245403, 0>> }
      [] x = <<13176795, 0 - 24>> -> { <<16777215, 0 - 24>>, <<1, 0>>, <<8388609, 0 - 23>> }
      [] x = <<1, 0 - 1>> -> { <<4582717, 0 - 23>>, <<9165435, 0 - 24>>, <<2291359, 0 - 22>> }
      [] x = <<1, 0>> -> { <<6532241, 0 - 22>>, <<13064483, 0 - 23>>, <<3266121, 0 - 21>> }
      [] x = <<3, 0 - 1>> -> { <<7393205, 0 - 19>>, <<14786411, 0 - 20>>, <<3696603, 0 - 18>> }
      [] x = <<1, 0 - 21>> -> { <<16777215, 0 - 45>>, <<1, 0 - 21>>, <<8388609, 0 - 44>> }

\* The focal length row of y is left out: rows (f_x,0,c_x),(0,0,c_y),(0,0,1).
Camera_new_without_f_y(position, image_width, image_height, tan_h, tan_v) ==
    LET c_x == f32_div(f32_from(image_width), f32_from(2))
        c_y == f32_div(f32_from(image_height), f32_from(2))
        f_x == f32_div(c_x, tan_h)
        camera_matrix ==
            << <<f_x, Zero, c_x>>, <<Zero, Zero, c_y>>, Vec3_new(0, 0, 1) >>
        camera_matrix_inverse == Matrix3x3_inverse(camera_matrix)
    IN  IF camera_matrix_inverse = << >> THEN << >>
        ELSE << [position |-> position, camera_matrix |-> camera_matrix,
                 camera_matrix_inverse |-> camera_matrix_inverse[1]] >>

\* Camera::new with tan_h = (h_fov / 2.0).tan() and tan_v = (v_fov / 2.0).tan():
\* the camera, or nothing when camera_matrix.inverse() panics
Camera_new(position, image_width, image_height, tan_h, tan_v) ==
    LET c_x == f32_div(f32_from(image_width), f32_from(2))
        c_y == f32_div(f32_from(image_height), f32_from(2))
        f_x == f32_div(c_x, tan_h)
        f_y == f32_div(c_y, tan_v)
        camera_matrix ==
            << <<f_x, Zero, c_x>>, <<Zero, f_y, c_y>>, Vec3_new(0, 0, 1) >>
        camera_matrix_inverse == Matrix3x3_inverse(camera_matrix)
    IN  IF camera_matrix_inverse = << >> THEN << >>
        ELSE << [position |-> position, camera_matrix |-> camera_matrix,
                 camera_matrix_inverse |-> camera_matrix_inverse[1]] >>

\* the arguments of one Camera::new call:
\* (position, image_width, image_height, h_fov, v_fov)
CameraInputs ==
    { <<Vec3_new(0, 0, 10), w, h, hf, vf>> :
        w \in ImageSizes, h \in {1, 600}, hf \in Fovs, vf \in Fovs }

InitCam ==
    /\ ShapeManager_new
    /\ config = [time |-> 0, width |-> 0, height |-> 0,
                 shape_count |-> 0, sphere_count |-> 0, cube_count |-> 0]
    /\ fatal = FALSE
    /\ \E inp \in CameraInputs : ret = Call("camera_input", inp, << >>)

\* Camera::new(position, image_width, image_height, h_fov, v_fov); `args`
\* keeps the two tangents the call computed after its five arguments
CameraNew ==
    /\ ~fatal
    /\ ret.op = "camera_input"
    /\ \E tan_h \in f32_tan(f32_div(ret.args[4], f32_from(2))),
          tan_v \in f32_tan(f32_div(ret.args[5], f32_from(2))) :
          /\ ret' = Call("Camera_new", ret.args \o <<tan_h, tan_v>>,
                         Camera_new(ret.args[1], ret.args[2], ret.args[3], tan_h, tan_v))
          /\ fatal' = (Camera_new(ret.args[1], ret.args[2], ret.args[3], tan_h, tan_v) = << >>)
    /\ UNCHANGED <<shapes, indices, map, config>>

NextCam == CameraNew

SpecCam == InitCam /\ [][NextCam]_vars

\* the exponent range of the normal f32 values: 2^-126 <= |a| < 2^128
f32_normal(a) ==
    /\ a[1] # 0
    /\ Log2Floor(Abs(a[1])) + a[2] >= 0 - 126
    /\ Log2Floor(Abs(a[1])) + a[2] < 128

\* C21: Camera::new never reaches the singular-matrix fatal error for a
\* positive image width and height and fields of view strictly between 0 and
\* pi: the intrinsic matrix has rows (f_x,0,c_x),(0,f_y,c_y),(0,0,1) and its
\* determinant is f_x * f_y, which is not zero.
C21_CameraNewNeverSingular ==
    ret.op = "Camera_new" =>
        /\ ~fatal
        /\ Len(ret.out) = 1
        /\ LET m == ret.out[1].camera_matrix
               c_x == f32_div(f32_from(ret.args[2]), f32_from(2))
               c_y == f32_div(f32_from(ret.args[3]), f32_from(2))
               f_x == f32_div(c_x, ret.args[6])
               f_y == f32_div(c_y, ret.args[7])
           IN  /\ m = << <<f_x, Zero, c_x>>, <<Zero, f_y, c_y>>, Vec3_new(0, 0, 1) >>
               /\ Matrix3x3_determinant(m) = f32_mul(f_x, f_y)
               /\ Matrix3x3_determinant(m) # Zero
               /\ f32_normal(f_x) /\ f32_normal(f_y)
               /\ f32_normal(Matrix3x3_determinant(m))

\* a camera of a 1 x 1 image whose fields of view are both the largest angle
\* below pi has been built: the smallest focal lengths
C21_Witness ==
    /\ ret.op = "Camera_new"
    /\ ret.args[2] = 1
    /\ ret.args[3] = 1
    /\ ret.args[4] = Pi_below
    /\ ret.args[5] = Pi_below
    /\ ret.args[6] = <<13245403, 0>>
    /\ Len(ret.out) = 1

---------------------------------------------------------------------------
(* new_union statement by statement: `ret.op` is the position inside the   *)
(* call, `ret.args` its two arguments                                      *)

\* no new_union call is under way
Idle ==
    ret.op \notin {"new_union.matched", "new_union.left_disabled",
                   "new_union.right_disabled"}

\* match (get_shape(left).is_some(), get_shape(right).is_some()):
\* (true, true) enters the arm, anything else returns None
NewUnionMatch(left, right) ==
    /\ ~fatal
    /\ Idle
    /\ IF Len(get_shape(left)) = 1 /\ Len(get_shape(right)) = 1
       THEN ret' = Call("new_union.matched", <<left, right>>, << >>)
       ELSE ret' = Call("new_union", <<left, right>>, << >>)
    /\ UNCHANGED <<shapes, indices, map, config, fatal>>

\* get_shape_mut(left).unwrap().set_flag(Flag::Enabled, false)
NewUnionDisableLeft ==
    /\ ~fatal
    /\ ret.op = "new_union.matched"
    /\ shapes' = with_flag(shapes, ret.args[1], FALSE)
    /\ ret' = Call("new_union.left_disabled", ret.args, << >>)
    /\ UNCHANGED <<indices, map, config, fatal>>

\* get_shape_mut(right).unwrap().set_flag(Flag::Enabled, false)
NewUnionDisableRight ==
    /\ ~fatal
    /\ ret.op = "new_union.left_disabled"
    /\ shapes' = with_flag(shapes, ret.args[2], FALSE)
    /\ ret' = Call("new_union.right_disabled", ret.args, << >>)
    /\ UNCHANGED <<indices, map, config, fatal>>

\* self.map[2].push(..), which panics on a map of two entries; then
\* self.shapes.push(Union {..}), self.indices[2] += 1 and the return
NewUnionAppend ==
    /\ ~fatal
    /\ ret.op = "new_union.right_disabled"
    /\ IF has_map(2)
       THEN /\ map' = [map EXCEPT ![3] = Append(@, Len(shapes))]
            /\ shapes' = Append(shapes, Union(ret.args[1], ret.args[2], indices[2]))
            /\ indices' = [indices EXCEPT ![2] = @ + 1]
            /\ fatal' = FALSE
            /\ ret' = Call("new_union", ret.args, <<Len(shapes)>>)
       ELSE /\ fatal' = TRUE
            /\ ret' = Call("new_union", ret.args, << >>)
            /\ UNCHANGED <<shapes, indices, map>>
    /\ UNCHANGED config

NextUnion ==
    \/ Idle /\ \E inp \in SphereInputs : new_sphere(inp[1], inp[2], inp[3])
    \/ Idle /\ \E inp \in CubeInputs : new_cube(inp[1], inp[2], inp[3])
    \/ Idle /\ \E slot \in Indexes, value \in BOOLEAN : SetFlag(slot, value)
    \/ \E left \in Indexes, right \in Indexes : NewUnionMatch(left, right)
    \/ NewUnionDisableLeft
    \/ NewUnionDisableRight
    \/ NewUnionAppend

SpecUnion == Init /\ [][NextUnion]_vars

\* the operands of every Union in collection sh are slots stored before it
UnionOperandsStored(sh) ==
    \A i \in 1 .. Len(sh) :
        sh[i].kind = "Union" => (sh[i].left < i - 1 /\ sh[i].right < i - 1)

---------------------------------------------------------------------------
(* The manager's queries: the calls that take `&self`, and the lookups *)

ShapeCount ==
    /\ ~fatal
    /\ ret' = Call("shape_count", << >>, <<shape_count>>)
    /\ UNCHANGED <<shapes, indices, map, config, fatal>>

SphereCount ==
    /\ ~fatal
    /\ ret' = Call("sphere_count", << >>, <<sphere_count>>)
    /\ UNCHANGED <<shapes, indices, map, config, fatal>>

\* the factory calls and set_flag, which change the manager, and every query
NextRead ==
    \/ \E inp \in SphereInputs : new_sphere(inp[1], inp[2], inp[3])
    \/ \E inp \in CubeInputs : new_cube(inp[1], inp[2], inp[3])
    \/ \E slot \in Indexes, value \in BOOLEAN : SetFlag(slot, value)
    \/ \E cam \in Cameras : SerializeShapes(cam)
    \/ SerializeSpheres
    \/ SerializeCubes
    \/ \E slot \in Indexes : GetSphere(slot)
    \/ \E slot \in Indexes : GetSphereMut(slot)
    \/ \E slot \in Indexes : GetCube(slot)
    \/ \E slot \in Indexes : GetCubeMut(slot)
    \/ \E chunk_size \in DeviceAlignments : ShapeBufferSize(chunk_size)
    \/ \E chunk_size \in DeviceAlignments : SphereBufferSize(chunk_size)
    \/ \E chunk_size \in DeviceAlignments : CubeBufferSize(chunk_size)
    \/ ShapeCount
    \/ SphereCount

SpecRead == Init /\ [][NextRead]_vars

Queries ==
    {"serialize_shapes", "serialize_spheres", "serialize_cubes",
     "shape_buffer_size", "sphere_buffer_size", "cube_buffer_size",
     "shape_count", "sphere_count",
     "get_sphere", "get_sphere_mut", "get_cube", "get_cube_mut"}

\* what query `call` returns in the current state of the manager
Answer(call) ==
    CASE call.op = "serialize_shapes" -> serialize_shapes(call.args[1])
      [] call.op = "serialize_spheres" -> serialize_spheres
      [] call.op = "serialize_cubes" -> serialize_cubes
      [] call.op = "shape_buffer_size" -> <<shape_buffer_size(Len(shapes), call.args[2])>>
      [] call.op = "sphere_buffer_size" -> <<sphere_buffer_size(Len(map[1]), call.args[2])>>
      [] call.op = "cube_buffer_size" -> <<cube_buffer_size(Len(map[2]), call.args[2])>>
      [] call.op = "shape_count" -> <<shape_count>>
      [] call.op = "sphere_count" -> <<sphere_count>>
      [] call.op = "get_sphere" -> get_sphere(call.args[1])
      [] call.op = "get_sphere_mut" -> get_sphere_mut(call.args[1])
      [] call.op = "get_cube" -> get_cube(call.args[1])
      [] call.op = "get_cube_mut" -> get_cube_mut(call.args[1])

---------------------------------------------------------------------------
(* Minors, cofactors and the adjugate of the 3x3 and 4x4 matrices *)

\* a 3x3 matrix of small integers whose cofactor products need more than 24
\* significant bits
Rounding3 == <<Vec3_new(1, 1, 1), Vec3_new(1, 2, 257), Vec3_new(257, 257, 1)>>

MinorInputs == Matrices3 \cup Matrices4 \cup {Rounding3}

sub_matrix_asserts(m, row, col) ==
    CASE Len(m) = 3 -> Matrix3x3_sub_matrix_asserts(row, col)
      [] Len(m) = 4 -> Matrix4x4_sub_matrix_asserts(row, col)

sub_matrix(m, row, col) ==
    CASE Len(m) = 3 -> Matrix3x3_sub_matrix(m, row, col)
      [] Len(m) = 4 -> Matrix4x4_sub_matrix(m, row, col)

cofactor_matrix(m) ==
    CASE Len(m) = 3 -> Matrix3x3_cofactor_matrix(m)
      [] Len(m) = 4 -> Matrix4x4_cofactor_matrix(m)

adjugate(m) ==
    CASE Len(m) = 3 -> Matrix3x3_adjugate(m)
      [] Len(m) = 4 -> Matrix4x4_adjugate(m)

mul_f32(m, s) ==
    CASE Len(m) = 3 -> Matrix3x3_mul_f32(m, s)
      [] Len(m) = 4 -> Matrix4x4_mul_f32(m, s)

InitMinor ==
    /\ ShapeManager_new
    /\ config = [time |-> 0, width |-> 0, height |-> 0,
                 shape_count |-> 0, sphere_count |-> 0, cube_count |-> 0]
    /\ fatal = FALSE
    /\ \E m \in MinorInputs : ret = Call("matrix", <<m>>, << >>)

\* m.sub_matrix(row, col): a failed assertion panics
SubMatrix(row, col) ==
    /\ ~fatal
    /\ ret.op = "matrix"
    /\ IF sub_matrix_asserts(ret.args[1], row, col)
       THEN /\ ret' = Call("sub_matrix", <<ret.args[1], row, col>>,
                           <<sub_matrix(ret.args[1], row, col)>>)
            /\ fatal' = FALSE
       ELSE /\ ret' = Call("sub_matrix", <<ret.args[1], row, col>>, << >>)
            /\ fatal' = TRUE
    /\ UNCHANGED <<shapes, indices, map, config>>

\* m.cofactor_matrix()
CofactorMatrix ==
    /\ ~fatal
    /\ ret.op = "matrix"
    /\ ret' = Call("cofactor_matrix", ret.args, <<cofactor_matrix(ret.args[1])>>)
    /\ UNCHANGED <<shapes, indices, map, config, fatal>>

\* m.adjugate()
Adjugate ==
    /\ ~fatal
    /\ ret.op = "matrix"
    /\ ret' = Call("adjugate", ret.args, <<adjugate(ret.args[1])>>)
    /\ UNCHANGED <<shapes, indices, map, config, fatal>>

\* m * m.adjugate()
MulAdjugate ==
    /\ ~fatal
    /\ ret.op = "adjugate"
    /\ ret' = Call("mul_adjugate", <<ret.args[1], ret.out[1]>>,
                   <<mul(ret.args[1], ret.out[1])>>)
    /\ UNCHANGED <<shapes, indices, map, config, fatal>>

NextMinor ==
    \/ \E row \in 0 .. MaxIndex, col \in 0 .. MaxIndex : SubMatrix(row, col)
    \/ CofactorMatrix
    \/ Adjugate
    \/ MulAdjugate

SpecMinor == InitMinor /\ [][NextMinor]_vars

\* the indices 1 .. n (1-based) in increasing order without the one at the
\* 0-based place `skip`
Kept(n, skip) == SelectSeq([k \in 1 .. n |-> k], LAMBDA k : k # skip + 1)

\* C25: sub_matrix(row, col) of a 3x3 (4x4) matrix is the 2x2 (3x3) matrix of
\* exactly the entries whose row is not `row` and whose column is not `col`,
\* in their original row and column order, for row and col in 0..N-1; a row
\* or col >= N is a fatal assertion failure.
C25_SubMatrixDropsRowAndColumn ==
    ret.op = "sub_matrix" =>
        LET m == ret.args[1]
            n == Len(m)
            rows == Kept(n, ret.args[2])
            cols == Kept(n, ret.args[3])
        IN  IF ret.args[2] < n /\ ret.args[3] < n
            THEN /\ ~fatal
                 /\ Len(ret.out) = 1
                 /\ Len(ret.out[1]) = n - 1
                 /\ \A r \in 1 .. n - 1 :
                        /\ Len(ret.out[1][r]) = n - 1
                        /\ \A c \in 1 .. n - 1 :
                               ret.out[1][r][c] = m[rows[r]][cols[c]]
            ELSE fatal /\ ret.out = << >>

\* row 1 and column 2 have been taken out of the 4x4 matrix of rows 1..16
C25_Witness ==
    /\ ret.op = "sub_matrix"
    /\ ret.args = <<Counting4, 1, 2>>
    /\ ret.out = << <<Vec3_new(1, 2, 4), Vec3_new(9, 10, 12), Vec3_new(13, 14, 16)>> >>
    /\ ~fatal

\* cell (i, j) is the determinant of the minor (i, j), negated when i + j is odd
IsCofactorMatrix(c, m) ==
    \A i \in 1 .. Len(m), j \in 1 .. Len(m) :
        c[i][j] = IF (i + j) % 2 = 0
                  THEN determinant(sub_matrix(m, i - 1, j - 1))
                  ELSE f32_neg(determinant(sub_matrix(m, i - 1, j - 1)))

\* C26 (as claimed): for every 3x3 and 4x4 matrix M, cofactor_matrix()[i][j]
\* is the determinant of sub_matrix(i, j) negated exactly when i + j is odd,
\* adjugate()[i][j] equals cofactor_matrix()[j][i], and M * M.adjugate()
\* equals determinant(M) times the identity.
C26_AdjugateGivesDeterminant ==
    /\ ret.op = "cofactor_matrix" => IsCofactorMatrix(ret.out[1], ret.args[1])
    /\ ret.op = "adjugate" =>
          /\ IsCofactorMatrix(transpose(ret.out[1]), ret.args[1])
          /\ \A i \in 1 .. Len(ret.args[1]), j \in 1 .. Len(ret.args[1]) :
                 ret.out[1][i][j] = cofactor_matrix(ret.args[1])[j][i]
    /\ ret.op = "mul_adjugate" =>
          eq(ret.out[1], mul_f32(identity(Len(ret.args[1])), determinant(ret.args[1])))

\* every entry of m is an integer of magnitude at most 140 (3x3) or 28 (4x4):
\* no cofactor and no sum of three or four products of an entry and a
\* cofactor then needs more than 24 significant bits
SmallIntegers(m) ==
    \A i \in 1 .. Len(m), j \in 1 .. Len(m) :
        /\ m[i][j][2] >= 0
        /\ Abs(IntOf(m[i][j])) <= (IF Len(m) = 3 THEN 140 ELSE 28)

\* C26 (amended): cofactor_matrix()[i][j] is the determinant of
\* sub_matrix(i, j) negated exactly when i + j is odd and adjugate()[i][j]
\* equals cofactor_matrix()[j][i], for every 3x3 and 4x4 matrix M;
\* M * M.adjugate() equals determinant(M) times the identity when the entries
\* of M are integers of magnitude at most 140 (3x3) or 28 (4x4), where no step
\* rounds.
C26_AdjugateGivesDeterminantOfSmallIntegers ==
    /\ ret.op = "cofactor_matrix" => IsCofactorMatrix(ret.out[1], ret.args[1])
    /\ ret.op = "adjugate" =>
          /\ IsCofactorMatrix(transpose(ret.out[1]), ret.args[1])
          /\ \A i \in 1 .. Len(ret.args[1]), j \in 1 .. Len(ret.args[1]) :
                 ret.out[1][i][j] = cofactor_matrix(ret.args[1])[j][i]
    /\ (ret.op = "mul_adjugate" /\ SmallIntegers(ret.args[1])) =>
          /\ ret.out[1] = mul_f32(identity(Len(ret.args[1])), determinant(ret.args[1]))
          /\ eq(ret.out[1], mul_f32(identity(Len(ret.args[1])), determinant(ret.args[1])))

\* the 4x4 matrix of test_matrix4x4_inverse has been multiplied by its
\* adjugate: 2646 times the identity
C26_Witness ==
    /\ ret.op = "mul_adjugate"
    /\ ret.args[1] = <<Vec4_new(1, 8, 14, 3), Vec4_new(9, 5, 6, 13),
                       Vec4_new(15, 2, 4, 11), Vec4_new(7, 12, 16, 10)>>
    /\ ret.out = <<Matrix4x4_mul_f32(Matrix4x4_identity, f32_from(2646))>>

---------------------------------------------------------------------------
(* The screen bounding box of a stored shape under several cameras *)

\* proj_matrix of a camera looking down -z from z = d: w = d - z, and x and y
\* scaled by 12 so that every division of the model divides evenly
Mat4Perspective(d) ==
    << <<12, 0, 0, 0>>, <<0, 12, 0, 0>>, <<0, 0, 1, 0>>, <<0, 0, 0 - 1, d>> >>

\* (inv_c_matrix, proj_matrix, screen_size): the identity; x mirrored; the
\* axes permuted; a perspective camera at z = 3, in front of every corner; a
\* perspective camera at z = 1 moved by (1, 0, 0), on whose plane w = 0 some
\* corners of every shape of the model lie, one of them with x = 0
ScreenCameras ==
    { <<Mat4Identity, Mat4Identity, <<4, 2>>>>,
      << << <<0 - 1, 0, 0, 0>>, <<0, 1, 0, 0>>, <<0, 0, 1, 0>>, <<0, 0, 0, 1>> >>,
         Mat4Identity, <<4, 2>>>>,
      << << <<0, 0, 1, 0>>, <<1, 0, 0, 0>>, <<0, 1, 0, 0>>, <<0, 0, 0, 1>> >>,
         Mat4Identity, <<4, 2>>>>,
      <<Mat4Identity, Mat4Perspective(3), <<4, 2>>>>,
      <<Mat4Translate(<<0 - 1, 0, 0>>), Mat4Perspective(1), <<4, 2>>>> }

\* shapes[slot].get_screen_bounding_box(inv_c_matrix, proj_matrix, screen_size)
\* on a stored Sphere or Cube
GetScreenBoundingBox(slot, cam) ==
    /\ ~fatal
    /\ slot < Len(shapes)
    /\ ~bounding_box_panics(shapes[slot + 1])
    /\ ret' = Call("get_screen_bounding_box", <<slot, cam>>,
                   <<get_screen_bounding_box(shapes[slot + 1], cam[1], cam[2], cam[3])>>)
    /\ UNCHANGED <<shapes, indices, map, config, fatal>>

NextScreen ==
    \/ \E inp \in SphereInputs : new_sphere(inp[1], inp[2], inp[3])
    \/ \E inp \in CubeInputs : new_cube(inp[1], inp[2], inp[3])
    \/ \E slot \in Indexes, cam \in ScreenCameras : GetScreenBoundingBox(slot, cam)

SpecScreen == Init /\ [][NextScreen]_vars

\* a <= b on f32: false when either side is NaN
PixelLe(a, b) == a # F32_NAN /\ b # F32_NAN /\ a <= b

\* the screen positions of the 8 corners of the world bounding box of `shape`,
\* each by the camera's own arithmetic
ScreenCorners(shape, cam) ==
    LET bb == get_world_bounding_box(shape)
    IN  { corner_to_pixels(<<bb[x][1], bb[y][2], bb[z][3]>>, cam[1], cam[2], cam[3]) :
            x \in {1, 2}, y \in {1, 2}, z \in {1, 2} }

\* box = [min_x, min_y, max_x, max_y] is ordered, holds every corner of
\* `corners`, and each of its sides passes through a corner
BoundsCorners(box, corners) ==
    /\ PixelLe(box[1], box[3])
    /\ PixelLe(box[2], box[4])
    /\ \A c \in corners :
          /\ PixelLe(box[1], c[1]) /\ PixelLe(c[1], box[3])
          /\ PixelLe(box[2], c[2]) /\ PixelLe(c[2], box[4])
    /\ \E c \in corners : c[1] = box[1]
    /\ \E c \in corners : c[2] = box[2]
    /\ \E c \in corners : c[1] = box[3]
    /\ \E c \in corners : c[2] = box[4]

\* C27 (as claimed): get_screen_bounding_box returns [min_x, min_y, max_x,
\* max_y], the component-wise min and max over the screen positions of all 8
\* corners of the shape's world bounding box, so min_x <= max_x,
\* min_y <= max_y and every transformed corner lies inside the returned box.
C27_BoxHoldsEveryCorner ==
    ret.op = "get_screen_bounding_box" =>
        BoundsCorners(ret.out[1], ScreenCorners(shapes[ret.args[1] + 1], ret.args[2]))

\* the same for the calls in which no corner has w = 0
BoxHoldsEveryFiniteCorner ==
    (/\ ret.op = "get_screen_bounding_box"
     /\ \A c \in ScreenCorners(shapes[ret.args[1] + 1], ret.args[2]) :
            c[1] \notin {F32_NAN, F32_INFINITY, F32_NEG_INFINITY}
            /\ c[2] \notin {F32_NAN, F32_INFINITY, F32_NEG_INFINITY})
        => BoundsCorners(ret.out[1], ScreenCorners(shapes[ret.args[1] + 1], ret.args[2]))

---------------------------------------------------------------------------
(* The transform mutators of the Shape trait, applied to stored shapes *)

\* The flags are reset to Flags::enabled().
Sphere_rotate_resetting_flags(sphere, rotation) == [sphere EXCEPT !.flags = Flags_enabled]

Sphere_translate(sphere, translation) ==
    [sphere EXCEPT !.pos = <<@[1] + translation[1], @[2] + translation[2],
                             @[3] + translation[3]>>]

Sphere_set_pos(sphere, pos) == [sphere EXCEPT !.pos = pos]

Sphere_rotate(sphere, rotation) == sphere

Sphere_set_rotation(sphere, rotation) == sphere

Union_translate(union, translation) == union

Union_set_pos(union, pos) == union

Union_rotate(union, rotation) == union

Union_set_rotation(union, rotation) == union

\* the dispatch of the trait object on the kind of the shape
translate(shape, translation) ==
    CASE shape.kind = "Sphere" -> Sphere_translate(shape, translation)
      [] shape.kind = "Cube" -> Cube_translate(shape, translation)
      [] shape.kind = "Union" -> Union_translate(shape, translation)

set_pos(shape, pos) ==
    CASE shape.kind = "Sphere" -> Sphere_set_pos(shape, pos)
      [] shape.kind = "Cube" -> Cube_set_pos(shape, pos)
      [] shape.kind = "Union" -> Union_set_pos(shape, pos)

rotate(shape, rotation) ==
    CASE shape.kind = "Sphere" -> Sphere_rotate(shape, rotation)
      [] shape.kind = "Cube" -> Cube_rotate(shape, rotation)
      [] shape.kind = "Union" -> Union_rotate(shape, rotation)

set_rotation(shape, rotation) ==
    CASE shape.kind = "Sphere" -> Sphere_set_rotation(shape, rotation)
      [] shape.kind = "Cube" -> Cube_set_rotation(shape, rotation)
      [] shape.kind = "Union" -> Union_set_rotation(shape, rotation)

\* the orientations a caller passes here: none and half a turn about z
HalfTurns == { QuatIdentity, << <<0, 0>>, <<0, 0>>, <<0, 0>>, <<1, 0>> >> }

\* a manager holding the sphere and the cube that new_sphere and new_cube
\* have just made, in slots 0 and 1
InitShape ==
    /\ \E s \in SphereInputs, c \in CubeInputs :
          /\ shapes = <<Sphere(s[1], s[2], s[3], 0), Cube(c[1], c[2], QuatIdentity, c[3], 0)>>
          /\ ret = Call("new_cube", c, <<1>>)
    /\ indices = [k \in 0 .. KindSlots - 1 |-> IF k = 2 THEN 0 ELSE 1]
    /\ map = << <<0>>, <<1>> >>
    /\ config = [time |-> 0, width |-> 800, height |-> 600,
                 shape_count |-> 0, sphere_count |-> 0, cube_count |-> 0]
    /\ fatal = FALSE

\* get_shape_mut(slot).unwrap().translate(translation)
ShapeTranslate(slot, translation) ==
    /\ slot < Len(shapes)
    /\ shapes[slot + 1].pos[1] + translation[1] <= MaxPos
    /\ shapes' = [shapes EXCEPT ![slot + 1] = translate(@, translation)]
    /\ ret' = Call("translate", <<slot, translation>>, << >>)
    /\ UNCHANGED <<indices, map, config, fatal>>

\* get_shape_mut(slot).unwrap().set_pos(pos)
ShapeSetPos(slot, pos) ==
    /\ slot < Len(shapes)
    /\ shapes' = [shapes EXCEPT ![slot + 1] = set_pos(@, pos)]
    /\ ret' = Call("set_pos", <<slot, pos>>, << >>)
    /\ UNCHANGED <<indices, map, config, fatal>>

\* get_shape_mut(slot).unwrap().rotate(rotation)
ShapeRotate(slot, rotation) ==
    /\ slot < Len(shapes)
    /\ shapes' = [shapes EXCEPT ![slot + 1] = rotate(@, rotation)]
    /\ ret' = Call("rotate", <<slot, rotation>>, << >>)
    /\ UNCHANGED <<indices, map, config, fatal>>

\* get_shape_mut(slot).unwrap().set_rotation(rotation)
ShapeSetRotation(slot, rotation) ==
    /\ slot < Len(shapes)
    /\ shapes' = [shapes EXCEPT ![slot + 1] = set_rotation(@, rotation)]
    /\ ret' = Call("set_rotation", <<slot, rotation>>, << >>)
    /\ UNCHANGED <<indices, map, config, fatal>>

\* get_cube_mut(index).unwrap().set_bounds(bounds); `args` keeps the slot
CubeSetBounds(kind_index, bounds) ==
    /\ Len(get_cube_mut(kind_index)) = 1
    /\ shapes' = [shapes EXCEPT ![map[2][kind_index + 1] + 1] = Cube_set_bounds(@, bounds)]
    /\ ret' = Call("set_bounds", <<map[2][kind_index + 1], bounds>>, << >>)
    /\ UNCHANGED <<indices, map, config, fatal>>

NextShape ==
    \/ \E slot \in Indexes, value \in BOOLEAN : SetFlag(slot, value)
    \/ \E slot \in Indexes : ShapeTranslate(slot, <<1, 0, 0>>)
    \/ \E slot \in Indexes, pos \in PosInputs : ShapeSetPos(slot, pos)
    \/ \E slot \in Indexes, rotation \in HalfTurns : ShapeRotate(slot, rotation)
    \/ \E slot \in Indexes, rotation \in HalfTurns : ShapeSetRotation(slot, rotation)
    \/ \E kind_index \in Indexes, bounds \in BoundsInputs : CubeSetBounds(kind_index, bounds)

SpecShape == InitShape /\ [][NextShape]_vars

TransformMutators == {"translate", "set_pos", "rotate", "set_rotation", "set_bounds"}

\* C28: rotate and set_rotation on a Sphere, and translate, set_pos, rotate
\* and set_rotation on a Union, leave every field of the shape unchanged; and
\* no transform mutator of any shape (translate, set_pos, rotate,
\* set_rotation, Cube::set_bounds) changes that shape's kind-local index or
\* its flags.
C28_MutatorsKeepIndexAndFlags ==
    [][ret'.op \in TransformMutators =>
          LET before == shapes[ret'.args[1] + 1]
              after == shapes'[ret'.args[1] + 1]
          IN  /\ Len(shapes') = Len(shapes)
              /\ after.kind = before.kind
              /\ after.index = before.index
              /\ after.flags = before.flags
              /\ (before.kind = "Sphere" /\ ret'.op \in {"rotate", "set_rotation"})
                     => after = before
              /\ (before.kind = "Union" /\ ret'.op # "set_bounds") => after = before]_vars

\* the disabled sphere in slot 0, moved to (1, 1, 0) before, has been given
\* half a turn: still disabled, still there, still of index 0
C28_Witness ==
    /\ ret.op = "rotate"
    /\ ret.args = <<0, << <<0, 0>>, <<0, 0>>, <<0, 0>>, <<1, 0>> >> >>
    /\ shapes[1].kind = "Sphere"
    /\ shapes[1].pos = <<1, 1, 0>>
    /\ shapes[1].index = 0
    /\ ~shapes[1].flags.enabled

---------------------------------------------------------------------------
(* The bookkeeping of the manager: counters, index lists and shapes *)

\* the kind whose counter is indices[k] and whose index list is map[k]
KindOf(k) ==
    CASE k = 0 -> "Sphere"
      [] k = 1 -> "Cube"
      [] k = 2 -> "Union"

\* the slots (0-based) that store a shape of kind k
SlotsOfKind(k) == {i \in 0 .. Len(shapes) - 1 : shapes[i + 1].kind = KindOf(k)}

\* C29: in every reachable manager state, for each kind k with an index list,
\* the counter indices[k] equals the length of map[k] and the number of stored
\* shapes of kind k (so sphere_count() is the number of spheres), and
\* map[k][i] is the storage position of a shape of kind k whose kind-local
\* index is i, the entries of map[k] strictly increasing.
C29_CountersListsAndShapesAgree ==
    /\ \A k \in 0 .. KindSlots - 1 : has_map(k) =>
          /\ indices[k] = Len(map[k + 1])
          /\ indices[k] = Cardinality(SlotsOfKind(k))
          /\ \A i \in 0 .. Len(map[k + 1]) - 1 :
                /\ map[k + 1][i + 1] \in SlotsOfKind(k)
                /\ shapes[map[k + 1][i + 1] + 1].index = i
          /\ \A i \in 1 .. Len(map[k + 1]) - 1 : map[k + 1][i] < map[k + 1][i + 1]
    /\ sphere_count = Cardinality(SlotsOfKind(0))

\* a cube between two spheres, or a sphere after a cube when only two shapes
\* fit: the spheres' list skips the cube's slot
C29_Witness ==
    /\ Len(shapes) = MaxShapes
    /\ shapes[MaxShapes - 1].kind = "Cube"
    /\ shapes[MaxShapes].kind = "Sphere"
    /\ map[1][Len(map[1])] = MaxShapes - 1
    /\ map[2][Len(map[2])] = MaxShapes - 2
    /\ sphere_count = Len(map[1])
    /\ ret.op = "new_sphere"
    /\ ret.out = <<MaxShapes - 1>>

---------------------------------------------------------------------------
(* The buffer sizes against the serialized buffers *)

\* the three helpers called in the current state return at least `shapes_len`,
\* `spheres_len` and `cubes_len` bytes
SizedFor(shapes_len, spheres_len, cubes_len) ==
    /\ ret.op = "shape_buffer_size" => ret.out[1] >= shapes_len
    /\ ret.op = "sphere_buffer_size" => ret.out[1] >= spheres_len
    /\ ret.op = "cube_buffer_size" => ret.out[1] >= cubes_len

\* C30 (as claimed): in every reachable manager state, including the empty
\* one, shape_buffer_size, sphere_buffer_size and cube_buffer_size return a
\* size at least as large as the byte length of the buffer returned by
\* serialize_shapes, serialize_spheres and serialize_cubes respectively.
C30_SerializedBytesFitBuffer ==
    (~fatal /\ ~serialize_shapes_panics) =>
        \A cam \in Cameras :
            SizedFor(ShapeDataSize * Len(serialize_shapes(cam)),
                     SphereDataSize * Len(serialize_spheres),
                     CubeDataSize * Len(serialize_cubes))

\* the same for the lists that hold a shape: the bytes of a list of no shape,
\* one default record, are left out
RecordsFitBuffer ==
    \A cam \in Cameras :
        SizedFor(IF shapes = << >> THEN 0 ELSE ShapeDataSize * Len(serialize_shapes(cam)),
                 IF map[1] = << >> THEN 0 ELSE SphereDataSize * Len(serialize_spheres),
                 IF map[2] = << >> THEN 0 ELSE CubeDataSize * Len(serialize_cubes))
=============================================================================
